---------------------------- MODULE Spec2Model ----------------------------
(***************************************************************************)
(* Streaming execution protocol of services/agent-lib:                     *)
(*   StreamingProtocol::Parser   (src/streaming/streaming_protocol.cpp)    *)
(*   Agent::promptStreaming      (src/streaming/streaming.cpp)             *)
(*                                                                         *)
(* Text is modelled byte by byte: a std::string is a sequence of           *)
(* one-character strings.  Positions are 1-based; 0 stands for npos.       *)
(***************************************************************************)
EXTENDS Integers, Sequences, FiniteSets, TLC

VARIABLES
  \* ---- StreamingProtocol::Parser fields (StreamingProtocol.hpp:164-185)
  state, buffer, currentThought, currentAction, currentResponse,
  currentContextFeed, lastEmittedThoughtPos, currentAttributes,
  actionExecutor, tokenCallback,
  actionResults, actionCompleted, pendingActions, contextFeeds,
  \* ---- what the parser's collaborators observe
  events,        \* TokenEvents handed to tokenCallback since the last reset()
  calls,         \* invocations of the ActionExecutor since the last reset()
  crashed,       \* the process died (use of an invalidated iterator)
  \* ---- the token source
  stream,        \* pieces of model output not yet delivered
  finals,        \* number of parseToken calls made with isFinal = true
  resets,        \* number of reset() calls made by the test harness
  source,        \* how the token source cuts the stream: "pieces" or "bytes"
  cuts,          \* tokens of this turn that ended inside a piece
  running,       \* the parseToken call that is inside the ActionExecutor
  resolved,      \* a string and what resolveVariables made of it, call by call
  \* ---- Agent::promptStreaming
  pc, script, currentIteration, iterationLimit, shouldContinue,
  receivedFinalResponse, conversationHistory, generateCalls

parserVars == <<state, buffer, currentThought, currentAction, currentResponse,
                currentContextFeed, lastEmittedThoughtPos, currentAttributes,
                actionExecutor, tokenCallback,
                actionResults, actionCompleted, pendingActions, contextFeeds,
                events, calls, crashed>>
sourceVars == <<stream, finals, resets, source, cuts, running, resolved>>
agentVars == <<pc, script, currentIteration, iterationLimit, shouldContinue,
                receivedFinalResponse, conversationHistory, generateCalls>>
vars == <<parserVars, sourceVars, agentVars>>

-----------------------------------------------------------------------------
(* std::string helpers *)

Min(S) == CHOOSE x \in S : \A y \in S : x <= y
Max(S) == CHOOSE x \in S : \A y \in S : x >= y

Take(s, n) == SubSeq(s, 1, IF n < Len(s) THEN n ELSE Len(s))
Drop(s, n) == SubSeq(s, n + 1, Len(s))

\* pat occurs in s at position i
OccursAt(s, pat, i) ==
  /\ i >= 1
  /\ i + Len(pat) - 1 <= Len(s)
  /\ \A k \in 1..Len(pat) : s[i + k - 1] = pat[k]

\* std::string::find(pat, from): first position >= from, 0 when absent
Find(s, pat, from) ==
  LET C == {i \in from..(Len(s) - Len(pat) + 1) : OccursAt(s, pat, i)}
  IN  IF C = {} THEN 0 ELSE Min(C)

\* first position >= from whose character is / is not in set, Len(s)+1 if none
FirstIn(s, set, from) ==
  LET C == {i \in from..Len(s) : s[i] \in set}
  IN  IF C = {} THEN Len(s) + 1 ELSE Min(C)
FirstNotIn(s, set, from) ==
  LET C == {i \in from..Len(s) : s[i] \notin set}
  IN  IF C = {} THEN Len(s) + 1 ELSE Min(C)

Digits == <<"0","1","2","3","4","5","6","7","8","9">>
DigitSet == {Digits[i] : i \in 1..10}
\* regex \w and \s
WordChars ==
  {"a","b","c","d","e","f","g","h","i","j","k","l","m","n","o","p","q","r","s",
   "t","u","v","w","x","y","z",
   "A","B","C","D","E","F","G","H","I","J","K","L","M","N","O","P","Q","R","S",
   "T","U","V","W","X","Y","Z"} \cup DigitSet \cup {"_"}
SpaceChars == {" ", "\t", "\n", "\r"}

\* the byte 0x60 (grave accent), which a string literal cannot hold
BackTick == "grave"

\* the characters in ASCII order, for std::map's ordering of its keys
Ascii == <<"\t","\n","\r"," ","!","\"","#","$","%","&","'","(",")","*","+",",",
           "-",".","/","0","1","2","3","4","5","6","7","8","9",":",";","<","=",
           ">","?","@","A","B","C","D","E","F","G","H","I","J","K","L","M","N",
           "O","P","Q","R","S","T","U","V","W","X","Y","Z","[","\\","]","^","_",
           BackTick,"a","b","c","d","e","f","g","h","i","j","k","l","m","n","o","p",
           "q","r","s","t","u","v","w","x","y","z","{","|","}","~">>
Ord(c) == CHOOSE i \in 1..Len(Ascii) : Ascii[i] = c

\* std::string operator<
StrLess(a, b) ==
  LET n == IF Len(a) < Len(b) THEN Len(a) ELSE Len(b)
      D == {i \in 1..n : a[i] # b[i]}
  IN  IF D = {} THEN Len(a) < Len(b)
      ELSE Ord(a[Min(D)]) < Ord(b[Min(D)])

RECURSIVE SortedKeys(_)
\* the keys of a std::map in iteration order
SortedKeys(S) ==
  IF S = {} THEN <<>>
  ELSE LET m == CHOOSE x \in S : \A y \in S \ {x} : StrLess(x, y)
       IN  <<m>> \o SortedKeys(S \ {m})

RECURSIVE DecValue(_)
\* value of a run of decimal digits
DecValue(s) ==
  IF s = <<>> THEN 0
  ELSE 10 * DecValue(SubSeq(s, 1, Len(s) - 1)) + (Ord(s[Len(s)]) - Ord("0"))

RECURSIVE to_string(_)
\* std::to_string of a non-negative integer
to_string(n) ==
  IF n < 10 THEN <<Digits[n + 1]>>
  ELSE to_string(n \div 10) \o <<Digits[(n % 10) + 1]>>

\* std::map: empty map, insertion/overwrite, erase, count
EmptyMap == [x \in {} |-> 0]
MapPut(m, k, v) == [x \in (DOMAIN m) \cup {k} |-> IF x = k THEN v ELSE m[x]]
MapErase_all(m, k) == EmptyMap
MapErase(m, k) == [x \in (DOMAIN m) \ {k} |-> m[x]]
Has(m, k) == k \in DOMAIN m

-----------------------------------------------------------------------------
(* Json::Value, Json::parseFromStream and Json::writeString (jsoncpp).       *)
(* The model covers the JSON the parser's inputs are written in: null,       *)
(* true/false, non-negative integers, strings without escapes, arrays and    *)
(* objects.  A value is a pair <<tag, payload>>; an object's payload maps keys to     *)
(* values.                                                                   *)

JNull == <<"null", 0>>
JBool(b) == <<"bool", b>>
JInt(n) == <<"int", n>>
JStr(s) == <<"str", s>>
JArr(a) == <<"arr", a>>
JObj(m) == <<"obj", m>>

JFail == [ok |-> FALSE, v |-> JNull, i |-> 0]
JOk(val, next) == [ok |-> TRUE, v |-> val, i |-> next]

RECURSIVE readValue(_, _), readObject(_, _, _, _), readArray(_, _, _, _)

\* one JSON value starting at or after position i0 (leading blanks skipped)
readValue(s, i0) ==
  LET i == FirstNotIn(s, SpaceChars, i0) IN
  IF i > Len(s) THEN JFail
  ELSE IF s[i] = "{" THEN readObject(s, i + 1, EmptyMap, TRUE)
  ELSE IF s[i] = "[" THEN readArray(s, i + 1, <<>>, TRUE)
  ELSE IF s[i] = "\"" THEN
    LET j == FirstIn(s, {"\"", "\\"}, i + 1) IN
    IF j > Len(s) \/ s[j] = "\\" THEN JFail
    ELSE JOk(JStr(SubSeq(s, i + 1, j - 1)), j + 1)
  ELSE IF s[i] \in DigitSet THEN
    LET j == FirstNotIn(s, DigitSet, i) IN
    JOk(JInt(DecValue(SubSeq(s, i, j - 1))), j)
  ELSE IF OccursAt(s, <<"t","r","u","e">>, i) THEN JOk(JBool(TRUE), i + 4)
  ELSE IF OccursAt(s, <<"f","a","l","s","e">>, i) THEN JOk(JBool(FALSE), i + 5)
  ELSE IF OccursAt(s, <<"n","u","l","l">>, i) THEN JOk(JNull, i + 4)
  ELSE JFail

\* the members of an object after "{"; first: no member has been read yet
readObject(s, i0, obj, first) ==
  LET i == FirstNotIn(s, SpaceChars, i0) IN
  IF i > Len(s) THEN JFail
  ELSE IF s[i] = "}" /\ first THEN JOk(JObj(obj), i + 1)
  ELSE IF s[i] # "\"" THEN JFail
  ELSE
    LET key == readValue(s, i)
        c == IF key.ok THEN FirstNotIn(s, SpaceChars, key.i) ELSE 0
        val == IF key.ok /\ c <= Len(s) /\ s[c] = ":"
               THEN readValue(s, c + 1) ELSE JFail
        e == IF val.ok THEN FirstNotIn(s, SpaceChars, val.i) ELSE 0
    IN  IF ~val.ok \/ e > Len(s) THEN JFail
        ELSE IF s[e] = "," THEN
          readObject(s, e + 1, MapPut(obj, key.v[2], val.v), FALSE)
        ELSE IF s[e] = "}" THEN JOk(JObj(MapPut(obj, key.v[2], val.v)), e + 1)
        ELSE JFail

\* the elements of an array after "["
readArray(s, i0, arr, first) ==
  LET i == FirstNotIn(s, SpaceChars, i0) IN
  IF i > Len(s) THEN JFail
  ELSE IF s[i] = "]" /\ first THEN JOk(JArr(arr), i + 1)
  ELSE
    LET val == readValue(s, i)
        e == IF val.ok THEN FirstNotIn(s, SpaceChars, val.i) ELSE 0
    IN  IF ~val.ok \/ e > Len(s) THEN JFail
        ELSE IF s[e] = "," THEN readArray(s, e + 1, Append(arr, val.v), FALSE)
        ELSE IF s[e] = "]" THEN JOk(JArr(Append(arr, val.v)), e + 1)
        ELSE JFail

\* Json::parseFromStream with a default CharReaderBuilder: the first value of
\* the text is the root; text after it is not an error (failIfExtra is off)
parseFromStream(s) == readValue(s, 1)

RECURSIVE JoinWith(_, _)
JoinWith(parts, sep) ==
  IF parts = <<>> THEN <<>>
  ELSE IF Len(parts) = 1 THEN parts[1]
  ELSE parts[1] \o sep \o JoinWith(Tail(parts), sep)

RECURSIVE writeString(_)
\* Json::writeString with indentation "": compact JSON, object keys sorted
writeString(val) ==
  IF val[1] = "null" THEN <<"n","u","l","l">>
  ELSE IF val[1] = "bool" THEN
    (IF val[2] THEN <<"t","r","u","e">> ELSE <<"f","a","l","s","e">>)
  ELSE IF val[1] = "int" THEN to_string(val[2])
  ELSE IF val[1] = "str" THEN <<"\"">> \o val[2] \o <<"\"">>
  ELSE IF val[1] = "arr" THEN
    <<"[">> \o JoinWith([k \in 1..Len(val[2]) |-> writeString(val[2][k])], <<",">>)
            \o <<"]">>
  ELSE
    LET ks == SortedKeys(DOMAIN val[2]) IN
    <<"{">> \o JoinWith([k \in 1..Len(ks) |->
                          <<"\"">> \o ks[k] \o <<"\"", ":">>
                                   \o writeString(val[2][ks[k]])], <<",">>)
            \o <<"}">>

\* Json::Value::isMember; it throws on a value that is no object and not null
isMember(val, key) == val[1] = "obj" /\ Has(val[2], key)
isMemberThrows(val) == val[1] \notin {"obj", "null"}

\* Json::Value::asString: throws on arrays and objects
asStringThrows(val) == val[1] \in {"arr", "obj"}
asString(val) ==
  IF val[1] = "str" THEN val[2]
  ELSE IF val[1] = "int" THEN to_string(val[2])
  ELSE IF val[1] = "bool" THEN
    (IF val[2] THEN <<"t","r","u","e">> ELSE <<"f","a","l","s","e">>)
  ELSE <<>>

-----------------------------------------------------------------------------
(* Parser helpers that do not touch the parser's state *)

RECURSIVE parseAttributesFrom(_, _, _)
\* the matches of (\w+)\s*=\s*["']([^"']*)["'] from position i on, left to right
parseAttributesFrom(s, i, attrs) ==
  IF i > Len(s) THEN attrs
  ELSE
    LET w == FirstNotIn(s, WordChars, i)          \* end of (\w+)
        e == FirstNotIn(s, SpaceChars, w)         \* the "="
        q == FirstNotIn(s, SpaceChars, e + 1)     \* the opening quote
        c == FirstIn(s, {"\"", "'"}, q + 1)       \* the closing quote
        ok == /\ w > i
              /\ e <= Len(s) /\ s[e] = "="
              /\ q <= Len(s) /\ s[q] \in {"\"", "'"}
              /\ c <= Len(s)
    IN  IF ok THEN parseAttributesFrom(s, c + 1,
                     MapPut(attrs, SubSeq(s, i, w - 1), SubSeq(s, q + 1, c - 1)))
        ELSE parseAttributesFrom(s, i + 1, attrs)

parseAttributes(attrString) == parseAttributesFrom(attrString, 1, EmptyMap)

parseMode(modeStr) ==
  IF modeStr = <<"s","y","n","c">> THEN "SYNC"
  ELSE IF modeStr = <<"a","s","y","n","c">> THEN "ASYNC"
  ELSE IF modeStr = <<"f","i","r","e","_","a","n","d","_","f","o","r","g","e","t">> THEN "FIRE_AND_FORGET"
  ELSE "ASYNC"

parseType(typeStr) ==
  IF typeStr = <<"t","o","o","l">> THEN "TOOL"
  ELSE IF typeStr = <<"a","g","e","n","t">> THEN "AGENT"
  ELSE IF typeStr = <<"r","e","l","i","c">> THEN "RELIC"
  ELSE IF typeStr = <<"w","o","r","k","f","l","o","w">> THEN "WORKFLOW"
  ELSE IF typeStr = <<"l","l","m">> THEN "LLM"
  ELSE IF typeStr = <<"i","n","t","e","r","n","a","l">> THEN "INTERNAL"
  ELSE "TOOL"

RECURSIVE stripLineComments(_, _), stripBlockComments(_, _), stripTrailingCommas(_, _)
\* regex_replace of //[^\n]* by nothing, from position i on
stripLineComments(s, i) ==
  LET p == Find(s, <<"/","/">>, i) IN
  IF i > Len(s) THEN <<>>
  ELSE IF p = 0 THEN SubSeq(s, i, Len(s))
  ELSE SubSeq(s, i, p - 1) \o stripLineComments(s, FirstIn(s, {"\n"}, p + 2))

\* a match of /\*.*?\*/ starts at p; "." matches no line terminator
BlockCommentAt(s, p) ==
  /\ OccursAt(s, <<"/","*">>, p)
  /\ Find(s, <<"*","/">>, p + 2) # 0
  /\ FirstIn(s, {"\n", "\r"}, p + 2) > Find(s, <<"*","/">>, p + 2)

\* regex_replace of /\*.*?\*/ by nothing, from position i on
stripBlockComments(s, i) ==
  LET C == {p \in i..Len(s) : BlockCommentAt(s, p)} IN
  IF i > Len(s) THEN <<>>
  ELSE IF C = {} THEN SubSeq(s, i, Len(s))
  ELSE SubSeq(s, i, Min(C) - 1)
         \o stripBlockComments(s, Find(s, <<"*","/">>, Min(C) + 2) + 2)

\* a match of ,\s*([\]}]) starts at p
TrailingCommaAt(s, p) ==
  /\ s[p] = ","
  /\ FirstNotIn(s, SpaceChars, p + 1) <= Len(s)
  /\ s[FirstNotIn(s, SpaceChars, p + 1)] \in {"]", "}"}

\* regex_replace of ,\s*([\]}]) by $1, from position i on
stripTrailingCommas(s, i) ==
  LET C == {p \in i..Len(s) : TrailingCommaAt(s, p)} IN
  IF i > Len(s) THEN <<>>
  ELSE IF C = {} THEN SubSeq(s, i, Len(s))
  ELSE SubSeq(s, i, Min(C) - 1)
         \o stripTrailingCommas(s, FirstNotIn(s, SpaceChars, Min(C) + 1))

\* find_first_not_of / find_last_not_of " \t\n\r" and substr
trim(s) ==
  LET start == FirstNotIn(s, SpaceChars, 1)
      K == {i \in 1..Len(s) : s[i] \notin SpaceChars}
  IN  IF K = {} THEN s ELSE SubSeq(s, start, Max(K))

cleanJSON(rawJSON) ==
  trim(stripTrailingCommas(stripBlockComments(stripLineComments(rawJSON, 1), 1), 1))

-----------------------------------------------------------------------------
(* The parser.  P is a record of the Parser's fields together with the      *)
(* observations (events, calls, crashed) and two fields that exist only     *)
(* during a call: exc, a std::exception in flight, and minErase, the lowest *)
(* position erased from pendingActions since it was last cleared (0: none). *)
(* env is what the outside world decides during a parseToken call: the ids  *)
(* of the actions the ActionExecutor throws for (env.throws), the value it  *)
(* returns for the others (env.returns), and whether the build checks       *)
(* iterators (env.checkedIterators).                                        *)

BoolStr(b) ==
  IF b THEN <<"t","r","u","e">> ELSE <<"f","a","l","s","e">>

\* struct ParsedAction after std::make_shared<ParsedAction>(): the enums are
\* zero-initialised (TOOL, SYNC), the other members take their initialisers
NewParsedAction ==
  [id |-> <<>>, type |-> "TOOL", mode |-> "SYNC", name |-> <<>>,
   parameters |-> JNull, outputKey |-> <<>>, dependsOn |-> <<>>,
   embeddedInThought |-> FALSE, timeout |-> 30, retryCount |-> 0,
   skipOnError |-> FALSE]

\* struct ContextFeed
NewContextFeed ==
  [id |-> <<>>, type |-> <<>>, source |-> JNull, content |-> <<>>,
   cacheTtl |-> 0, maxTokens |-> 0]

\* struct TokenEvent; metadata is a record of strings
TokenEvent(type, content, metadata) ==
  [type |-> type, content |-> content, metadata |-> metadata]

emitToken(P, event) ==
  IF P.tokenCallback THEN [P EXCEPT !.events = Append(@, event)] ELSE P

addContextFeed(P, feed) ==
  [P EXCEPT !.contextFeeds = MapPut(@, feed.id, feed)]

\* the replacement text resolveVariables computes for one variable name
replacementFor(P, varName) ==
  IF Has(P.actionResults, varName) THEN
    LET value == P.actionResults[varName] IN
    IF value[1] = "str" THEN value[2]
    \* isNumeric() is isDouble(), which jsoncpp answers with true for every
    \* number: an integer goes through std::to_string(double)
    ELSE IF value[1] = "int" THEN to_string(value[2]) \o <<".","0","0","0","0","0","0">>
    ELSE IF value[1] = "bool" THEN BoolStr(value[2])
    ELSE IF value[1] = "null" THEN <<"n","u","l","l">>
    ELSE writeString(value)
  ELSE IF Has(P.contextFeeds, varName) THEN P.contextFeeds[varName].content
  ELSE <<>>

RECURSIVE collectReplacements(_, _, _, _)
\* the Replacement records for the matches of \$(\w+) from position i on
collectReplacements(P, s, i, replacements) ==
  LET C == {p \in i..(Len(s) - 1) : s[p] = "$" /\ s[p + 1] \in WordChars} IN
  IF C = {} THEN replacements
  ELSE collectReplacements(P, s, FirstNotIn(s, WordChars, Min(C) + 1),
         IF replacementFor(P, SubSeq(s, Min(C) + 1,
                                     FirstNotIn(s, WordChars, Min(C) + 1) - 1)) # <<>>
           THEN Append(replacements,
                       [pos |-> Min(C),
                        len |-> FirstNotIn(s, WordChars, Min(C) + 1) - Min(C),
                        value |-> replacementFor(P, SubSeq(s, Min(C) + 1,
                                     FirstNotIn(s, WordChars, Min(C) + 1) - 1))])
           ELSE replacements)

RECURSIVE applyReplacements(_, _, _)
\* result.replace(pos, len, value) for replacements[k], ..., replacements[1]
applyReplacements(result, replacements, k) ==
  IF k = 0 THEN result
  ELSE LET r == replacements[k] IN
       applyReplacements(SubSeq(result, 1, r.pos - 1) \o r.value
                           \o Drop(result, r.pos + r.len - 1),
                         replacements, k - 1)

\* Parser::resolveVariables(const std::string&)
resolveVariables(P, input) ==
  LET replacements == collectReplacements(P, input, 1, <<>>)
  IN  applyReplacements(input, replacements, Len(replacements))

RECURSIVE resolveVariablesJson(_, _)
\* Parser::resolveVariables(const Json::Value&)
resolveVariablesJson(P, input) ==
  IF input[1] = "str" THEN JStr(resolveVariables(P, input[2]))
  ELSE IF input[1] = "arr" THEN
    JArr([k \in 1..Len(input[2]) |-> resolveVariablesJson(P, input[2][k])])
  ELSE IF input[1] = "obj" THEN
    JObj([key \in DOMAIN input[2] |-> resolveVariablesJson(P, input[2][key])])
  ELSE input

\* Json::Value::asInt and asBool: the conversions that throw
asIntThrows(val) == val[1] \in {"str", "arr", "obj"}
asInt(val) ==
  IF val[1] = "int" THEN val[2]
  ELSE IF val[1] = "bool" /\ val[2] THEN 1 ELSE 0
asBoolThrows(val) == val[1] \in {"str", "arr", "obj"}
asBool(val) ==
  IF val[1] = "bool" THEN val[2]
  ELSE IF val[1] = "int" THEN val[2] # 0 ELSE FALSE

\* root[key] of a const object: null when the key is missing
Member(val, key) == IF isMember(val, key) THEN val[2][key] ELSE JNull

RECURSIVE stringElements(_)
\* the elements of a JSON array that are strings
stringElements(arr) ==
  IF arr = <<>> THEN <<>>
  ELSE (IF arr[1][1] = "str" THEN <<arr[1][2]>> ELSE <<>>)
         \o stringElements(Tail(arr))

\* Parser::parseAction after Json::parseFromStream has produced parsed;
\* ok = FALSE stands for the exception it throws
parseActionFrom(P, parsed, attrs) ==
  LET a0 == [NewParsedAction EXCEPT
               !.id = IF Has(attrs, <<"i","d">>) THEN attrs[<<"i","d">>] ELSE @,
               !.type = IF Has(attrs, <<"t","y","p","e">>)
                          THEN parseType(attrs[<<"t","y","p","e">>]) ELSE @,
               !.mode = IF Has(attrs, <<"m","o","d","e">>)
                          THEN parseMode(attrs[<<"m","o","d","e">>]) ELSE @]
      root == parsed.v
      name == Member(root, <<"n","a","m","e">>)
      outputKey == Member(root, <<"o","u","t","p","u","t","_","k","e","y">>)
      dependsOn == Member(root, <<"d","e","p","e","n","d","s","_","o","n">>)
      timeout == Member(root, <<"t","i","m","e","o","u","t">>)
      retryCount == Member(root, <<"r","e","t","r","y","_","c","o","u","n","t">>)
      skipOnError == Member(root, <<"s","k","i","p","_","o","n","_","e","r","r","o","r">>)
      throws == \/ ~parsed.ok
                \/ isMemberThrows(root)
                \/ asStringThrows(name) \/ asStringThrows(outputKey)
                \/ (isMember(root, <<"t","i","m","e","o","u","t">>) /\ asIntThrows(timeout))
                \/ (isMember(root, <<"r","e","t","r","y","_","c","o","u","n","t">>) /\ asIntThrows(retryCount))
                \/ (isMember(root, <<"s","k","i","p","_","o","n","_","e","r","r","o","r">>) /\ asBoolThrows(skipOnError))
  IN  IF throws THEN [ok |-> FALSE, action |-> a0]
      ELSE [ok |-> TRUE,
            action |-> [a0 EXCEPT
              !.name = IF isMember(root, <<"n","a","m","e">>) THEN asString(name) ELSE @,
              !.parameters = resolveVariablesJson(P, Member(root, <<"p","a","r","a","m","e","t","e","r","s">>)),
              !.outputKey = IF isMember(root, <<"o","u","t","p","u","t","_","k","e","y">>)
                              THEN asString(outputKey) ELSE @,
              !.dependsOn = IF dependsOn[1] = "arr"
                              THEN stringElements(dependsOn[2]) ELSE @,
              !.timeout = IF isMember(root, <<"t","i","m","e","o","u","t">>) THEN asInt(timeout) ELSE @,
              !.retryCount = IF isMember(root, <<"r","e","t","r","y","_","c","o","u","n","t">>)
                               THEN asInt(retryCount) ELSE @,
              !.skipOnError = IF isMember(root, <<"s","k","i","p","_","o","n","_","e","r","r","o","r">>)
                                THEN asBool(skipOnError) ELSE @]]

\* Parser::parseAction
parseAction(P, jsonStr, attrs) ==
  parseActionFrom(P, parseFromStream(cleanJSON(jsonStr)), attrs)

\* a scheduler that does not look at depends_on
canExecuteAction_ignoresDependencies(P, action) == TRUE

\* Parser::canExecuteAction
canExecuteAction(P, action) ==
  \A k \in 1..Len(action.dependsOn) :
    /\ Has(P.actionCompleted, action.dependsOn[k])
    /\ P.actionCompleted[action.dependsOn[k]]

\* Parser::executeInternalAction: [p, success, threw]
executeInternalAction(P, action) ==
  LET params == action.parameters
      Done(p, success) == [p |-> p, success |-> success, threw |-> FALSE]
      Throw == [p |-> P, success |-> FALSE, threw |-> TRUE]
      idv == Member(params, <<"i","d">>)
      keyv == Member(params, <<"k","e","y">>)
  IN
  IF action.name = <<"a","d","d","_","c","o","n","t","e","x","t","_","f","e","e","d">> THEN
    IF isMemberThrows(params) THEN Throw
    ELSE IF ~isMember(params, <<"i","d">>) THEN Done(P, FALSE)
    ELSE IF \/ asStringThrows(idv)
            \/ asStringThrows(Member(params, <<"t","y","p","e">>))
            \/ asIntThrows(Member(params, <<"c","a","c","h","e","_","t","t","l">>))
            \/ asIntThrows(Member(params, <<"m","a","x","_","t","o","k","e","n","s">>)) THEN Throw
    ELSE Done(addContextFeed(P,
           [NewContextFeed EXCEPT
              !.id = asString(idv),
              !.type = IF isMember(params, <<"t","y","p","e">>)
                         THEN asString(Member(params, <<"t","y","p","e">>)) ELSE @,
              !.source = IF isMember(params, <<"s","o","u","r","c","e">>)
                           THEN Member(params, <<"s","o","u","r","c","e">>) ELSE @,
              !.cacheTtl = IF isMember(params, <<"c","a","c","h","e","_","t","t","l">>)
                             THEN asInt(Member(params, <<"c","a","c","h","e","_","t","t","l">>)) ELSE @,
              !.maxTokens = IF isMember(params, <<"m","a","x","_","t","o","k","e","n","s">>)
                              THEN asInt(Member(params, <<"m","a","x","_","t","o","k","e","n","s">>)) ELSE @]),
           TRUE)
  ELSE IF action.name = <<"r","e","m","o","v","e","_","c","o","n","t","e","x","t","_","f","e","e","d">> THEN
    IF isMemberThrows(params) THEN Throw
    ELSE IF ~isMember(params, <<"i","d">>) THEN Done(P, FALSE)
    ELSE IF asStringThrows(idv) THEN Throw
    ELSE Done([P EXCEPT !.contextFeeds = MapErase(@, asString(idv))], TRUE)
  ELSE IF action.name = <<"s","e","t","_","v","a","r","i","a","b","l","e">> THEN
    IF isMemberThrows(params) THEN Throw
    ELSE IF ~isMember(params, <<"k","e","y">>) \/ ~isMember(params, <<"v","a","l","u","e">>)
      THEN Done(P, FALSE)
    ELSE IF asStringThrows(keyv) THEN Throw
    ELSE Done([P EXCEPT !.actionResults =
                 MapPut(@, asString(keyv), Member(params, <<"v","a","l","u","e">>))], TRUE)
  ELSE IF action.name = <<"d","e","l","e","t","e","_","v","a","r","i","a","b","l","e">> THEN
    IF isMemberThrows(params) THEN Throw
    ELSE IF ~isMember(params, <<"k","e","y">>) THEN Done(P, FALSE)
    ELSE IF asStringThrows(keyv) THEN Throw
    ELSE Done([P EXCEPT !.actionResults = MapErase(@, asString(keyv))], TRUE)
  ELSE IF action.name = <<"c","l","e","a","r","_","c","o","n","t","e","x","t">> THEN
    Done([P EXCEPT !.actionResults = EmptyMap], TRUE)
  ELSE Done(P, FALSE)

\* what the ActionExecutor does for an action: it returns a value or throws
ExecutorOutcome(env, action) ==
  IF action.id \in env.throws THEN [throws |-> TRUE, result |-> JNull]
  ELSE [throws |-> FALSE, result |-> env.returns]

\* combining positions erased from pendingActions (0: none)
LowestErase(a, b) == IF a = 0 THEN b ELSE IF b = 0 THEN a ELSE Min({a, b})

\* the catch block of Parser::executeAction
executeActionCatch(P, action) ==
  emitToken([P EXCEPT !.exc = FALSE,
                      !.actionCompleted = MapPut(@, action.id, ~action.skipOnError)],
            TokenEvent("ERROR", <<"A","c","t","i","o","n"," ","f","a","i","l","e","d",":"," ">>,
                       [action_id |-> action.id,
                        skip_on_error |-> BoolStr(action.skipOnError)]))

\* the try block of Parser::executeAction has come to P: an exception in
\* flight is caught
catchAction(P, action) ==
  IF P.exc /\ ~P.crashed THEN executeActionCatch(P, action) ELSE P

RECURSIVE executeAction(_, _, _), rescanPending(_, _, _)

\* Parser::executeAction
executeAction(P, action, env) ==
  IF ~P.actionExecutor THEN
    [P EXCEPT !.actionCompleted = MapPut(@, action.id, FALSE)]
  ELSE IF action.type = "INTERNAL" THEN
    LET r == executeInternalAction(P, action) IN
    IF r.threw THEN [P EXCEPT !.exc = TRUE]
    ELSE emitToken([r.p EXCEPT !.actionCompleted = MapPut(@, action.id, TRUE)],
                   TokenEvent("ACTION_COMPLETE", <<>>,
                              [action_id |-> action.id, type |-> <<"i","n","t","e","r","n","a","l">>,
                               success |-> BoolStr(r.success)]))
  ELSE
    LET outcome == ExecutorOutcome(env, action)
        called == [P EXCEPT !.calls = Append(@,
                     [action |-> action, threw |-> outcome.throws,
                      completedAtCall |-> P.actionCompleted])]
    IN
    IF outcome.throws THEN executeActionCatch(called, action)
    ELSE
      LET stored == [called EXCEPT
                       !.actionResults =
                          MapPut(IF action.outputKey # <<>>
                                   THEN MapPut(@, action.outputKey, outcome.result)
                                   ELSE @,
                                 action.id, outcome.result),
                       !.actionCompleted = MapPut(@, action.id, TRUE)]
          completed == emitToken(stored,
                         TokenEvent("ACTION_COMPLETE", <<>>,
                                    [action_id |-> action.id,
                                     output_key |-> action.outputKey,
                                     success |-> BoolStr(TRUE)]))
      IN  catchAction(rescanPending(completed, 1, env), action)

\* a scan that resolves the parameters of the action it releases once more
rescanPending_resolvesAgain(P, it, env) ==
  IF P.crashed \/ P.exc THEN P
  ELSE IF \A n \in 1..Len(P.pendingActions) :
            ~canExecuteAction(P, P.pendingActions[n]) THEN P
  ELSE executeAction(
         [P EXCEPT !.pendingActions =
            SubSeq(@, 1, Min({n \in 1..Len(@) : canExecuteAction(P, @[n])}) - 1)
              \o Drop(@, Min({n \in 1..Len(@) : canExecuteAction(P, @[n])}))],
         [P.pendingActions[Min({n \in 1..Len(P.pendingActions) :
                                  canExecuteAction(P, P.pendingActions[n])})]
            EXCEPT !.parameters = resolveVariablesJson(P, @)],
         env)

rescanPending_lastFirst(P, it, env) ==
  IF P.crashed \/ P.exc THEN P
  ELSE IF \A n \in 1..Len(P.pendingActions) :
            ~canExecuteAction(P, P.pendingActions[n]) THEN P
  ELSE executeAction(
         [P EXCEPT !.pendingActions =
            SubSeq(@, 1, Max({n \in 1..Len(@) : canExecuteAction(P, @[n])}) - 1)
              \o Drop(@, Max({n \in 1..Len(@) : canExecuteAction(P, @[n])}))],
         P.pendingActions[Max({n \in 1..Len(P.pendingActions) :
                                 canExecuteAction(P, P.pendingActions[n])})],
         env)

\* the loop over pendingActions in Parser::executeAction, the iterator standing
\* at position it.  The recursive executeAction may erase entries at or before
\* it, which invalidates the iterator: a checked build aborts on its next use;
\* otherwise it is a pointer to slot it of the shrunken vector, equal to end()
\* when it = size + 1 and pointing at destroyed (null) entries beyond that.
rescanPending(P, it, env) ==
  IF P.crashed \/ P.exc THEN P
  ELSE IF it = Len(P.pendingActions) + 1 THEN P
  ELSE IF it > Len(P.pendingActions) + 1 THEN [P EXCEPT !.crashed = TRUE]
  ELSE
    LET pendingAction == P.pendingActions[it] IN
    IF canExecuteAction(P, pendingAction) THEN
      LET erased == [P EXCEPT
                       !.pendingActions = SubSeq(@, 1, it - 1) \o Drop(@, it),
                       !.minErase = 0]
          ran == executeAction(erased, pendingAction, env)
          invalidated == ran.minErase # 0 /\ ran.minErase <= it
          back == [ran EXCEPT !.minErase = LowestErase(LowestErase(P.minErase, it), @)]
      IN  IF back.crashed \/ back.exc THEN back
          ELSE IF invalidated /\ env.checkedIterators
            THEN [back EXCEPT !.crashed = TRUE]
          ELSE rescanPending(back, it, env)
    ELSE rescanPending(P, it + 1, env)

\* Parser::handleThought
handleThought(P) ==
  LET emitted ==
        IF Len(P.currentThought) > P.lastEmittedThoughtPos
          THEN emitToken(P, TokenEvent("THOUGHT",
                                       Drop(P.currentThought, P.lastEmittedThoughtPos),
                                       [x \in {} |-> <<>>]))
          ELSE P
  IN  [emitted EXCEPT !.currentThought = <<>>, !.lastEmittedThoughtPos = 0]

\* the catch block of Parser::handleAction
actionParseError(P) ==
  emitToken([P EXCEPT !.exc = FALSE],
            TokenEvent("ERROR", <<"A","c","t","i","o","n"," ","p","a","r","s","e"," ","e","r","r","o","r",":"," ">>,
                       [x \in {} |-> <<>>]))

\* an action that is run at once is put into pendingActions as well
submitAction_keepsPending(P, action, env) ==
  LET started == emitToken(P, TokenEvent("ACTION_START", <<>>,
                                         [action_id |-> action.id,
                                          action_name |-> action.name]))
  IN  IF canExecuteAction(started, action)
        THEN executeAction([started EXCEPT !.pendingActions = Append(@, action)],
                           action, env)
        ELSE [started EXCEPT !.pendingActions = Append(@, action)]

\* Parser::handleAction from the ActionStart event on
submitAction(P, action, env) ==
  LET started == emitToken(P, TokenEvent("ACTION_START", <<>>,
                                         [action_id |-> action.id,
                                          action_name |-> action.name]))
  IN  IF canExecuteAction(started, action)
        THEN executeAction(started, action, env)
        ELSE [started EXCEPT !.pendingActions = Append(@, action)]

\* the try block of Parser::handleAction has come to P
catchSubmit(P) ==
  IF P.exc /\ ~P.crashed THEN actionParseError(P) ELSE P

\* the end of Parser::handleAction
clearAction(P) ==
  IF P.crashed THEN P
  ELSE [P EXCEPT !.currentAction = <<>>, !.currentAttributes = EmptyMap]

\* Parser::handleAction once parseAction has answered
handleParsed(P, parsed, env) ==
  clearAction(
    IF ~parsed.ok THEN actionParseError(P)
    ELSE catchSubmit(
           submitAction(P, [parsed.action EXCEPT
                              !.embeddedInThought = P.currentThought # <<>>],
                        env)))

\* Parser::handleAction
handleAction(P, env) ==
  handleParsed(P, parseAction(P, P.currentAction, P.currentAttributes), env)

\* a response counts as final only when the tag says so
handleResponse_finalOnlyWhenSaid(P) ==
  LET resolvedContent == resolveVariables(P, P.currentResponse)
      isFinal == /\ Has(P.currentAttributes, <<"f","i","n","a","l">>)
                 /\ P.currentAttributes[<<"f","i","n","a","l">>] = BoolStr(TRUE)
      emitted == IF resolvedContent # <<>>
                   THEN emitToken(P, TokenEvent("RESPONSE", resolvedContent,
                                                [is_final |-> BoolStr(isFinal)]))
                   ELSE P
  IN  [emitted EXCEPT !.currentResponse = <<>>, !.currentAttributes = EmptyMap]

\* Parser::handleResponse
handleResponse(P) ==
  LET resolvedContent == resolveVariables(P, P.currentResponse)
      finalAttr == P.currentAttributes[<<"f","i","n","a","l">>]
      isFinal == IF Has(P.currentAttributes, <<"f","i","n","a","l">>)
                   THEN finalAttr # <<"f","a","l","s","e">> /\ finalAttr # <<"0">>
                   ELSE TRUE
      emitted == IF resolvedContent # <<>>
                   THEN emitToken(P, TokenEvent("RESPONSE", resolvedContent,
                                                [is_final |-> BoolStr(isFinal)]))
                   ELSE P
  IN  [emitted EXCEPT !.currentResponse = <<>>, !.currentAttributes = EmptyMap]

\* Parser::handleContextFeed
handleContextFeed(P) ==
  LET feedId == IF Has(P.currentAttributes, <<"i","d">>)
                  THEN P.currentAttributes[<<"i","d">>] ELSE <<>>
      added == addContextFeed(P, [NewContextFeed EXCEPT
                                    !.id = feedId,
                                    !.content = P.currentContextFeed])
      emitted == IF feedId # <<>>
                   THEN emitToken(added, TokenEvent("CONTEXT_FEED",
                                                    P.currentContextFeed,
                                                    [feed_id |-> feedId]))
                   ELSE P
  IN  [emitted EXCEPT !.currentContextFeed = <<>>, !.currentAttributes = EmptyMap]


\* Parser::detectTagStart: its result ...
detectsTagStart(P, tagName) ==
  LET pos == Find(P.buffer, <<"<">> \o tagName, 1)
  IN  pos # 0 /\ Find(P.buffer, <<">">>, pos) # 0

\* ... and its effect when it returns true
detectTagStart(P, tagName) ==
  LET openTag == <<"<">> \o tagName
      pos == Find(P.buffer, openTag, 1)
      endPos == Find(P.buffer, <<">">>, pos)
      attrStart == pos + Len(openTag)
  IN  [P EXCEPT
         !.currentAttributes =
            IF attrStart < endPos
              THEN parseAttributes(SubSeq(P.buffer, attrStart, endPos - 1))
              ELSE EmptyMap,
         !.buffer = Drop(@, endPos)]

\* Parser::detectTagEnd: its result and its effect when it returns true
detectsTagEnd(P, tagName) ==
  Find(P.buffer, <<"<", "/">> \o tagName \o <<">">>, 1) # 0

detectTagEnd(P, tagName) ==
  LET closeTag == <<"<", "/">> \o tagName \o <<">">>
      pos == Find(P.buffer, closeTag, 1)
  IN  [P EXCEPT !.buffer = Drop(@, pos + Len(closeTag) - 1)]

RECURSIVE stripFences(_, _)
\* the first loop of Parser::processBuffer, searching from position pos
stripFences(buf, pos) ==
  LET p == Find(buf, <<BackTick, BackTick, BackTick>>, pos) IN
  IF p = 0 THEN buf
  ELSE IF p = 1 \/ buf[p - 1] = "\n" THEN
    LET lineEnd == Find(buf, <<"\n">>, p) IN
    IF lineEnd # 0 THEN stripFences(SubSeq(buf, 1, p - 1) \o Drop(buf, lineEnd), p)
    ELSE IF p + 3 <= Len(buf)
      THEN stripFences(SubSeq(buf, 1, p - 1) \o Drop(buf, p + 2), p)
      ELSE buf
  ELSE stripFences(buf, p + 1)

\* an accumulation that emits a thought every twelve bytes
accumulate_everyTwelve(P) ==
  LET c == P.buffer[1]
      rest == Tail(P.buffer)
      popped == [P EXCEPT !.buffer = rest]
  IN
  IF P.state = "IN_THOUGHT" THEN
    LET thought == P.currentThought \o <<c>>
        grown == [popped EXCEPT !.currentThought = thought]
    IN  IF /\ \/ Len(thought) - P.lastEmittedThoughtPos >= 12
              \/ rest = <<>>
              \/ c = "\n"
           /\ P.tokenCallback
           /\ Len(thought) > P.lastEmittedThoughtPos
          THEN emitToken([grown EXCEPT !.lastEmittedThoughtPos = Len(thought)],
                         TokenEvent("THOUGHT",
                                    Drop(thought, P.lastEmittedThoughtPos),
                                    [x \in {} |-> <<>>]))
          ELSE grown
  ELSE IF P.state = "IN_ACTION" THEN [popped EXCEPT !.currentAction = @ \o <<c>>]
  ELSE IF P.state = "IN_RESPONSE" THEN [popped EXCEPT !.currentResponse = @ \o <<c>>]
  ELSE IF P.state = "IN_CONTEXT_FEED"
    THEN [popped EXCEPT !.currentContextFeed = @ \o <<c>>]
  ELSE popped

\* the character-accumulating branch of Parser::processBuffer
accumulate(P) ==
  LET c == P.buffer[1]
      rest == Tail(P.buffer)
      popped == [P EXCEPT !.buffer = rest]
  IN
  IF P.state = "IN_THOUGHT" THEN
    LET thought == P.currentThought \o <<c>>
        grown == [popped EXCEPT !.currentThought = thought]
    IN  IF /\ \/ Len(thought) - P.lastEmittedThoughtPos >= 10
              \/ rest = <<>>
              \/ c = "\n"
           /\ P.tokenCallback
           /\ Len(thought) > P.lastEmittedThoughtPos
          THEN emitToken([grown EXCEPT !.lastEmittedThoughtPos = Len(thought)],
                         TokenEvent("THOUGHT",
                                    Drop(thought, P.lastEmittedThoughtPos),
                                    [x \in {} |-> <<>>]))
          ELSE grown
  ELSE IF P.state = "IN_ACTION" THEN [popped EXCEPT !.currentAction = @ \o <<c>>]
  ELSE IF P.state = "IN_RESPONSE" THEN [popped EXCEPT !.currentResponse = @ \o <<c>>]
  ELSE IF P.state = "IN_CONTEXT_FEED"
    THEN [popped EXCEPT !.currentContextFeed = @ \o <<c>>]
  ELSE popped

\* One pass of the while (!buffer.empty()) loop is a chain of checks on
\* s = [p, processed]: the parser and whether a tag has been consumed.
Hit(P) == [p |-> P, processed |-> TRUE]

flushedThought(P) == IF P.state = "IN_THOUGHT" THEN handleThought(P) ELSE P

thoughtStart(s) ==
  IF s.p.state \in {"IDLE", "IN_THOUGHT"} /\ detectsTagStart(s.p, <<"t","h","o","u","g","h","t">>)
    THEN Hit([detectTagStart(s.p, <<"t","h","o","u","g","h","t">>) EXCEPT !.state = "IN_THOUGHT"])
    ELSE s

actionStart(s) ==
  IF detectsTagStart(s.p, <<"a","c","t","i","o","n">>)
    THEN Hit([flushedThought(detectTagStart(s.p, <<"a","c","t","i","o","n">>))
                EXCEPT !.state = "IN_ACTION"])
    ELSE s

responseStart(s) ==
  IF detectsTagStart(s.p, <<"r","e","s","p","o","n","s","e">>)
    THEN Hit([flushedThought(detectTagStart(s.p, <<"r","e","s","p","o","n","s","e">>))
                EXCEPT !.state = "IN_RESPONSE"])
    ELSE s

contextFeedStart(s) ==
  IF detectsTagStart(s.p, <<"c","o","n","t","e","x","t","_","f","e","e","d">>)
    THEN Hit([detectTagStart(s.p, <<"c","o","n","t","e","x","t","_","f","e","e","d">>)
                EXCEPT !.state = "IN_CONTEXT_FEED"])
    ELSE s

thoughtEnd(s) ==
  IF s.p.state = "IN_THOUGHT" /\ detectsTagEnd(s.p, <<"t","h","o","u","g","h","t">>)
    THEN Hit([handleThought(detectTagEnd(s.p, <<"t","h","o","u","g","h","t">>))
                EXCEPT !.state = "IDLE"])
    ELSE s

\* the state after handleAction: back in the thought the action sat in
resumed(P) ==
  IF P.crashed THEN P
  ELSE [P EXCEPT !.state = IF P.currentThought = <<>>
                             THEN "IDLE" ELSE "IN_THOUGHT"]

actionEnd(s, env) ==
  IF s.p.state = "IN_ACTION" /\ detectsTagEnd(s.p, <<"a","c","t","i","o","n">>)
    THEN Hit(resumed(handleAction(detectTagEnd(s.p, <<"a","c","t","i","o","n">>), env)))
    ELSE s

responseEnd(s) ==
  IF ~s.p.crashed /\ s.p.state = "IN_RESPONSE" /\ detectsTagEnd(s.p, <<"r","e","s","p","o","n","s","e">>)
    THEN Hit([handleResponse(detectTagEnd(s.p, <<"r","e","s","p","o","n","s","e">>))
                EXCEPT !.state = "IDLE"])
    ELSE s

contextFeedEnd(s) ==
  IF ~s.p.crashed /\ s.p.state = "IN_CONTEXT_FEED"
       /\ detectsTagEnd(s.p, <<"c","o","n","t","e","x","t","_","f","e","e","d">>)
    THEN Hit([handleContextFeed(detectTagEnd(s.p, <<"c","o","n","t","e","x","t","_","f","e","e","d">>))
                EXCEPT !.state = "IDLE"])
    ELSE s

\* one pass of the while (!buffer.empty()) loop: [p, processed]
processPass(P, env) ==
  contextFeedEnd(responseEnd(actionEnd(thoughtEnd(
    contextFeedStart(responseStart(actionStart(thoughtStart(
      [p |-> P, processed |-> FALSE]))))), env)))

\* the end of a pass: a character is accumulated if no tag was consumed
passed(s) == IF s.processed THEN s.p ELSE accumulate(s.p)

RECURSIVE processLoop(_, _)
\* a loop that keeps the beginning of a tag in the buffer until its > arrives
processLoop_waitsForTag(P, env) ==
  IF P.buffer = <<>> \/ P.crashed THEN P
  ELSE IF P.buffer[1] = "<" /\ \A i \in 1..Len(P.buffer) : P.buffer[i] # ">"
    THEN P
  ELSE processLoop(passed(processPass(P, env)), env)

\* the while (!buffer.empty()) loop of Parser::processBuffer
processLoop(P, env) ==
  IF P.buffer = <<>> \/ P.crashed THEN P
  ELSE processLoop(passed(processPass(P, env)), env)

\* Parser::processBuffer
processBuffer(P, env) ==
  processLoop([P EXCEPT !.buffer = stripFences(@, 1)], env)

\* the flushes of Parser::parseToken when isFinal is set
flushThought(P) ==
  IF P.state = "IN_THOUGHT" /\ P.currentThought # <<>>
    THEN handleThought(P) ELSE P

\* a flush that leaves the text of the open response in place
flushResponse_keepsText(P) ==
  IF P.state = "IN_RESPONSE" /\ P.currentResponse # <<>>
    THEN [handleResponse(P) EXCEPT !.currentResponse = P.currentResponse]
    ELSE P

\* a parser that reports the open response as an error and discards it
flushResponse_asError(P) ==
  IF P.state = "IN_RESPONSE" /\ P.currentResponse # <<>>
    THEN [emitToken(P, TokenEvent("ERROR", <<"u","n","t","e","r","m","i","n","a","t","e","d">>,
                                  [x \in {} |-> <<>>]))
            EXCEPT !.currentResponse = <<>>, !.state = "IDLE"]
    ELSE P

flushResponse(P) ==
  IF P.state = "IN_RESPONSE" /\ P.currentResponse # <<>>
    THEN handleResponse(P) ELSE P

fallbackResponse(P) ==
  IF P.state = "IDLE" /\ P.buffer # <<>>
    THEN [emitToken(P, TokenEvent("RESPONSE", P.buffer,
                                  [is_final |-> BoolStr(TRUE), fallback |-> BoolStr(TRUE)]))
            EXCEPT !.buffer = <<>>]
    ELSE P

\* Parser::parseToken after processBuffer
finish(P, isFinal) ==
  IF isFinal /\ ~P.crashed
    THEN fallbackResponse(flushResponse(flushThought(P)))
    ELSE P

\* Parser::parseToken
parseToken(P, token, isFinal, env) ==
  finish(processBuffer([P EXCEPT !.buffer = @ \o token], env), isFinal)

\* a reset that forgets the context feeds too
reset_dropsFeeds(P) ==
  [P EXCEPT !.state = "IDLE", !.buffer = <<>>, !.currentThought = <<>>,
            !.currentAction = <<>>, !.currentResponse = <<>>,
            !.currentContextFeed = <<>>, !.currentAttributes = EmptyMap,
            !.actionResults = EmptyMap, !.actionCompleted = EmptyMap,
            !.pendingActions = <<>>, !.lastEmittedThoughtPos = 0,
            !.contextFeeds = EmptyMap,
            !.events = <<>>, !.calls = <<>>]

\* a reset that keeps the variable store
reset_keepsResults(P) ==
  [P EXCEPT !.state = "IDLE", !.buffer = <<>>, !.currentThought = <<>>,
            !.currentAction = <<>>, !.currentResponse = <<>>,
            !.currentContextFeed = <<>>, !.currentAttributes = EmptyMap,
            !.pendingActions = <<>>, !.lastEmittedThoughtPos = 0,
            !.events = <<>>, !.calls = <<>>]

\* Parser::reset; the observations start afresh with the parser
reset(P) ==
  [P EXCEPT !.state = "IDLE", !.buffer = <<>>, !.currentThought = <<>>,
            !.currentAction = <<>>, !.currentResponse = <<>>,
            !.currentContextFeed = <<>>, !.currentAttributes = EmptyMap,
            !.actionResults = EmptyMap, !.actionCompleted = EmptyMap,
            !.pendingActions = <<>>, !.lastEmittedThoughtPos = 0,
            !.events = <<>>, !.calls = <<>>]

\* a Parser as constructed: Parser(executor) and setTokenCallback
NewParser(hasExecutor, hasCallback) ==
  [state |-> "IDLE", buffer |-> <<>>, currentThought |-> <<>>,
   currentAction |-> <<>>, currentResponse |-> <<>>,
   currentContextFeed |-> <<>>, lastEmittedThoughtPos |-> 0,
   currentAttributes |-> EmptyMap,
   actionExecutor |-> hasExecutor, tokenCallback |-> hasCallback,
   actionResults |-> EmptyMap, actionCompleted |-> EmptyMap,
   pendingActions |-> <<>>, contextFeeds |-> EmptyMap,
   events |-> <<>>, calls |-> <<>>, crashed |-> FALSE,
   exc |-> FALSE, minErase |-> 0]

-----------------------------------------------------------------------------
(* Model outputs.  A document is the text of one model turn, cut into       *)
(* pieces at its tag boundaries; ids are the action ids it declares.        *)

DocHello == [ids |-> {}, pieces |-> <<<<"h","e","l","l","o">>>>]

\* spec scenario 1
DocSimple ==
  [ids |-> {},
   pieces |-> <<<<"<","t","h","o","u","g","h","t",">">>, <<"o","k">>, <<"<","/","t","h","o","u","g","h","t",">">>,
                <<"<","r","e","s","p","o","n","s","e"," ","f","i","n","a","l","=","\"","t","r","u","e","\"",">">>, <<"H","i">>, <<"<","/","r","e","s","p","o","n","s","e",">">>>>]

\* spec scenario 2, the shape of the streams in test_streaming.cpp and
\* test_variable_resolution.cpp
DocAction ==
  [ids |-> {<<"a","1">>},
   pieces |-> <<<<"<","t","h","o","u","g","h","t",">">>, <<"g","o">>, <<"<","/","t","h","o","u","g","h","t",">">>,
                <<"<","a","c","t","i","o","n"," ","t","y","p","e","=","\"","t","o","o","l","\""," ","m","o","d","e","=","\"","a","s","y","n","c","\""," ","i","d","=","\"","a","1","\"",">">>,
                <<"{","\"","n","a","m","e","\"",":","\"","a","d","d","\"",",","\"","o","u","t","p","u","t","_","k","e","y","\"",":","\"","k","\"","}">>, <<"<","/","a","c","t","i","o","n",">">>,
                <<"<","r","e","s","p","o","n","s","e"," ","f","i","n","a","l","=","\"","t","r","u","e","\"",">">>, <<"="," ","$","k">>, <<"<","/","r","e","s","p","o","n","s","e",">">>>>]

DocNonFinal ==
  [ids |-> {},
   pieces |-> <<<<"<","r","e","s","p","o","n","s","e"," ","f","i","n","a","l","=","\"","f","a","l","s","e","\"",">">>, <<"p","a","r","t">>, <<"<","/","r","e","s","p","o","n","s","e",">">>>>]

DocFinal ==
  [ids |-> {},
   pieces |-> <<<<"<","r","e","s","p","o","n","s","e"," ","f","i","n","a","l","=","\"","t","r","u","e","\"",">">>, <<"d","o","n","e">>, <<"<","/","r","e","s","p","o","n","s","e",">">>>>]

\* a response tag without a final attribute
DocBare ==
  [ids |-> {},
   pieces |-> <<<<"<","r","e","s","p","o","n","s","e",">">>, <<"p","l","a","i","n">>, <<"<","/","r","e","s","p","o","n","s","e",">">>>>]

Docs ==
  {
   DocHello,
   DocSimple,
   DocAction,
   \* spec scenario 3: b2 depends on b1 and follows it
   [ids |-> {<<"b","1">>, <<"b","2">>},
    pieces |-> <<<<"<","a","c","t","i","o","n"," ","i","d","=","\"","b","1","\"",">">>, <<"{","\"","n","a","m","e","\"",":","\"","t","\"","}">>, <<"<","/","a","c","t","i","o","n",">">>,
    <<"<","a","c","t","i","o","n"," ","i","d","=","\"","b","2","\"",">">>,
    <<"{","\"","n","a","m","e","\"",":","\"","t","\"",",","\"","d","e","p","e","n","d","s","_","o","n","\"",":","[","\"","b","1","\"","]","}">>, <<"<","/","a","c","t","i","o","n",">">>>>],
   \* b2 is declared before the action it depends on; b1 may be skipped on error
   [ids |-> {<<"b","1">>, <<"b","2">>, <<"b","3">>},
    pieces |-> <<<<"<","a","c","t","i","o","n"," ","i","d","=","\"","b","2","\"",">">>,
    <<"{","\"","n","a","m","e","\"",":","\"","t","\"",",","\"","d","e","p","e","n","d","s","_","o","n","\"",":","[","\"","b","1","\"","]","}">>, <<"<","/","a","c","t","i","o","n",">">>,
    <<"<","a","c","t","i","o","n"," ","i","d","=","\"","b","1","\"",">">>,
    <<"{","\"","n","a","m","e","\"",":","\"","t","\"",",","\"","s","k","i","p","_","o","n","_","e","r","r","o","r","\"",":","t","r","u","e","}">>, <<"<","/","a","c","t","i","o","n",">">>,
    <<"<","a","c","t","i","o","n"," ","i","d","=","\"","b","3","\"",">">>,
    <<"{","\"","n","a","m","e","\"",":","\"","t","\"",",","\"","d","e","p","e","n","d","s","_","o","n","\"",":","[","\"","b","1","\"","]","}">>, <<"<","/","a","c","t","i","o","n",">">>>>]
  }

RECURSIVE Flatten(_)
Flatten(pieces) ==
  IF pieces = <<>> THEN <<>> ELSE pieces[1] \o Flatten(Tail(pieces))

-----------------------------------------------------------------------------
(* The state machine *)

MaxSplit == 1        \* a cut is at most this many bytes from an end of a piece
MaxCuts == 1         \* tokens of one turn that end inside a piece
MaxFinals == 2       \* end-of-stream signals per model turn
MaxResets == 1       \* Parser::reset() calls of the test harness
CapInputs == {-1, 0, 1, 2, 3}     \* arguments given to setIterationCap
\* the parser held in the variables, and the variables after a call
Parser ==
  [state |-> state, buffer |-> buffer, currentThought |-> currentThought,
   currentAction |-> currentAction, currentResponse |-> currentResponse,
   currentContextFeed |-> currentContextFeed,
   lastEmittedThoughtPos |-> lastEmittedThoughtPos,
   currentAttributes |-> currentAttributes,
   actionExecutor |-> actionExecutor, tokenCallback |-> tokenCallback,
   actionResults |-> actionResults, actionCompleted |-> actionCompleted,
   pendingActions |-> pendingActions, contextFeeds |-> contextFeeds,
   events |-> events, calls |-> calls, crashed |-> crashed,
   exc |-> FALSE, minErase |-> 0]

ParserIs(P) ==
  /\ state = P.state
  /\ buffer = P.buffer
  /\ currentThought = P.currentThought
  /\ currentAction = P.currentAction
  /\ currentResponse = P.currentResponse
  /\ currentContextFeed = P.currentContextFeed
  /\ lastEmittedThoughtPos = P.lastEmittedThoughtPos
  /\ currentAttributes = P.currentAttributes
  /\ actionExecutor = P.actionExecutor
  /\ tokenCallback = P.tokenCallback
  /\ actionResults = P.actionResults
  /\ actionCompleted = P.actionCompleted
  /\ pendingActions = P.pendingActions
  /\ contextFeeds = P.contextFeeds
  /\ events = P.events
  /\ calls = P.calls
  /\ crashed = P.crashed

ParserBecomes(P) ==
  /\ state' = P.state
  /\ buffer' = P.buffer
  /\ currentThought' = P.currentThought
  /\ currentAction' = P.currentAction
  /\ currentResponse' = P.currentResponse
  /\ currentContextFeed' = P.currentContextFeed
  /\ lastEmittedThoughtPos' = P.lastEmittedThoughtPos
  /\ currentAttributes' = P.currentAttributes
  /\ actionExecutor' = P.actionExecutor
  /\ tokenCallback' = P.tokenCallback
  /\ actionResults' = P.actionResults
  /\ actionCompleted' = P.actionCompleted
  /\ pendingActions' = P.pendingActions
  /\ contextFeeds' = P.contextFeeds
  /\ events' = P.events
  /\ calls' = P.calls
  /\ crashed' = P.crashed

\* the document of the current model turn
CurrentDoc ==
  script[IF currentIteration + 1 <= Len(script)
           THEN currentIteration + 1 ELSE Len(script)]

\* the worlds a parseToken call can run in: the executor throws for some of
\* the actions the call can hand to it
Envs(ids) ==
  {[throws |-> t, returns |-> JInt(7), checkedIterators |-> c] :
     t \in SUBSET ids,
     c \in IF Len(pendingActions) >= 2 THEN BOOLEAN ELSE {FALSE}}

\* the actions a parseToken call can hand to the executor: those it hands
\* over when nothing throws, and any action of the document if that run
\* does not come back
DispatchedBy(quiet) ==
  IF quiet.crashed THEN CurrentDoc.ids
  ELSE {quiet.calls[i].action.id : i \in (Len(calls) + 1)..Len(quiet.calls)}

\* the run of parseToken in which nothing throws
Quiet(token, isFinal) ==
  parseToken(Parser, token, isFinal,
             [throws |-> {}, returns |-> JInt(7), checkedIterators |-> FALSE])

\* the actions of mode async among those a parseToken call hands over
AsyncDispatchedBy(quiet) ==
  IF quiet.crashed THEN {}
  ELSE {quiet.calls[i].action.id :
          i \in {j \in (Len(calls) + 1)..Len(quiet.calls) :
                   quiet.calls[j].action.mode = "ASYNC"}}

\* wrappedCallback of Agent::promptStreaming saw a final response among events
SeesFinalResponse(evs) ==
  \E k \in 1..Len(evs) :
    /\ evs[k].type = "RESPONSE"
    /\ evs[k].metadata.is_final = BoolStr(TRUE)

\* parseToken has returned with the parser as P; in promptStreaming the
\* events went through wrappedCallback
Parsed(P) ==
  /\ ParserBecomes(P)
  /\ receivedFinalResponse' =
       IF pc = "streaming"
         THEN receivedFinalResponse
                \/ SeesFinalResponse(SubSeq(P.events, Len(events) + 1,
                                            Len(P.events)))
         ELSE receivedFinalResponse

\* Parser::parseToken(token, isFinal) returns to the token source with the
\* parser as P
Returned(P, isFinal, rest) ==
  /\ Parsed(P)
  /\ stream' = rest
  /\ finals' = IF isFinal THEN finals + 1 ELSE finals
  /\ running' = <<>>
  /\ UNCHANGED <<resets, source, resolved>>
  /\ UNCHANGED <<pc, script, currentIteration, iterationLimit, shouldContinue,
                 conversationHistory, generateCalls>>

\* parseToken returns after the executor, called for the actions ids, has
\* returned or thrown for each
Returns(ids, token, isFinal, rest) ==
  \E env \in Envs(ids) :
    Returned(parseToken(Parser, token, isFinal, env), isFinal, rest)

\* Parser::parseToken(token, isFinal) has come to a call of the
\* ActionExecutor: the thread that delivers the tokens is inside that call
\* until it returns, and what the call does to the parser shows on its return
Enters(quiet, token, isFinal, rest) ==
  /\ running' = <<[token |-> token, isFinal |-> isFinal, rest |-> rest,
                   dispatched |-> DispatchedBy(quiet),
                   async |-> AsyncDispatchedBy(quiet)]>>
  /\ UNCHANGED <<parserVars, stream, finals, resets, source, resolved,
                 agentVars>>

\* the parseToken call either reaches a call of the ActionExecutor or runs
\* to its end without one
Calling(quiet, token, isFinal, rest) ==
  IF DispatchedBy(quiet) # {}
    THEN Enters(quiet, token, isFinal, rest)
    ELSE Returned(quiet, isFinal, rest)

\* the token source calls back with a token: Parser::parseToken(token, isFinal)
Token(token, isFinal, rest) ==
  /\ pc \in {"direct", "streaming"}
  /\ ~crashed
  /\ finals < MaxFinals
  /\ running = <<>>
  /\ Calling(Quiet(token, isFinal), token, isFinal, rest)

\* the ActionExecutor returns or throws, and parseToken runs to its end
ExecutorReturns ==
  /\ running # <<>>
  /\ Returns(running[1].dispatched, running[1].token, running[1].isFinal,
             running[1].rest)
  /\ UNCHANGED cuts

\* the next k pieces arrive as one token; the last token may carry isFinal
DeliverPieces ==
  /\ source = "pieces"
  /\ finals = 0
  /\ \E k \in 1..Len(stream), isFinal \in BOOLEAN :
       /\ isFinal => k = Len(stream)
       /\ Token(Flatten(SubSeq(stream, 1, k)), isFinal, Drop(stream, k))
  /\ UNCHANGED cuts

\* a token ends inside a piece, near one of its ends
DeliverPart ==
  /\ source = "pieces"
  /\ finals = 0
  /\ stream # <<>>
  /\ cuts < MaxCuts
  /\ \E n \in 1..(Len(stream[1]) - 1) :
       /\ n <= MaxSplit \/ n >= Len(stream[1]) - MaxSplit
       /\ Token(Take(stream[1], n), FALSE, <<Drop(stream[1], n)>> \o Tail(stream))
  /\ cuts' = cuts + 1

\* the stream arrives one byte per token
DeliverByte ==
  /\ source = "bytes"
  /\ finals = 0
  /\ stream # <<>>
  /\ LET text == Flatten(stream) IN
     \E isFinal \in BOOLEAN :
       /\ isFinal => Len(text) = 1
       /\ Token(<<text[1]>>, isFinal,
                IF Len(text) = 1 THEN <<>> ELSE <<Tail(text)>>)
  /\ UNCHANGED cuts

\* the end of the stream is signalled by an empty token
DeliverEnd ==
  /\ stream = <<>>
  /\ Token(<<>>, TRUE, <<>>)
  /\ UNCHANGED cuts

\* the harness resets the parser and feeds it another document
Reset ==
  /\ pc = "direct"
  /\ ~crashed
  /\ resets < MaxResets
  /\ running = <<>>
  /\ ParserBecomes(reset(Parser))
  /\ \E doc \in Docs :
       /\ script' = <<doc>>
       /\ stream' = doc.pieces
  /\ finals' = 0
  /\ resets' = resets + 1
  /\ UNCHANGED resolved
  /\ cuts' = 0
  /\ running' = <<>>
  /\ source' \in {"pieces", "bytes"}
  /\ UNCHANGED <<pc, currentIteration, iterationLimit, shouldContinue,
                 receivedFinalResponse, conversationHistory, generateCalls>>

\* a test program: a Parser is constructed, with an executor, a token
\* callback or both, and is fed a document
Init ==
  /\ \E hasExecutor \in BOOLEAN, hasCallback \in BOOLEAN :
       /\ hasExecutor \/ hasCallback
       /\ ParserIs(NewParser(hasExecutor, hasCallback))
  /\ \E doc \in Docs :
       /\ script = <<doc>>
       /\ stream = doc.pieces
  /\ finals = 0
  /\ resets = 0
  /\ resolved = <<>>
  /\ source \in {"pieces", "bytes"}
  /\ cuts = 0
  /\ running = <<>>
  /\ pc = "direct"
  /\ currentIteration = 0
  /\ iterationLimit = 10
  /\ shouldContinue = FALSE
  /\ receivedFinalResponse = FALSE
  /\ conversationHistory = <<>>
  /\ generateCalls = 0

Next ==
  \/ DeliverPieces \/ DeliverPart \/ DeliverByte \/ DeliverEnd
  \/ ExecutorReturns \/ Reset

Spec == Init /\ [][Next]_vars

-----------------------------------------------------------------------------
(* The agent loop: Agent::promptStreaming drives one Parser over the turns  *)
(* of a model.                                                              *)

MAX_HISTORY_CONTENT_LEN == 100000

\* Agent::addToHistory
addToHistory(history, role, content) ==
  Append(history,
         [role |-> role,
          content |-> IF Len(content) > MAX_HISTORY_CONTENT_LEN
                        THEN Take(content, MAX_HISTORY_CONTENT_LEN)
                               \o <<".",".","."," ","(","t","r","u","n","c","a","t","e","d",")">>
                        ELSE content])

RECURSIVE resultLines(_, _)
\* the <result> lines of the envelope, in the order of the map's keys
resultLines(results, keys) ==
  IF keys = <<>> THEN <<>>
  ELSE <<"<","r","e","s","u","l","t"," ","k","e","y","=","\"">> \o keys[1] \o <<"\"",">">>
         \o writeString(results[keys[1]]) \o <<"<","/","r","e","s","u","l","t",">","\n">>
         \o resultLines(results, Tail(keys))

assistantMessage_oneBased(iteration, results) ==
  <<"<","i","t","e","r","a","t","i","o","n","_">> \o to_string(iteration + 1) \o <<">","\n">>
    \o <<"<","/","i","t","e","r","a","t","i","o","n","_">> \o to_string(iteration + 1) \o <<">">>

\* the assistant message appended after a turn without a final response
assistantMessage(iteration, results) ==
  <<"<","i","t","e","r","a","t","i","o","n","_">> \o to_string(iteration) \o <<">","\n">>
    \o (IF DOMAIN results # {}
          THEN <<"<","a","c","t","i","o","n","_","r","e","s","u","l","t","s",">","\n">>
                 \o resultLines(results, SortedKeys(DOMAIN results))
                 \o <<"<","/","a","c","t","i","o","n","_","r","e","s","u","l","t","s",">","\n">>
          ELSE <<>>)
    \o <<"<","/","i","t","e","r","a","t","i","o","n","_">> \o to_string(iteration) \o <<">">>

\* a setter that takes any cap as it comes
SetIterationCap_unchecked ==
  /\ pc = "ready"
  /\ \E cap \in CapInputs :
       iterationLimit' = cap
  /\ UNCHANGED <<parserVars, sourceVars, pc, script, currentIteration,
                 shouldContinue, receivedFinalResponse, conversationHistory,
                 generateCalls>>

\* Agent::setIterationCap
SetIterationCap ==
  /\ pc = "ready"
  /\ \E cap \in CapInputs :
       iterationLimit' = IF cap > 0 THEN cap ELSE 10
  /\ UNCHANGED <<parserVars, sourceVars, pc, script, currentIteration,
                 shouldContinue, receivedFinalResponse, conversationHistory,
                 generateCalls>>

\* Agent::promptStreaming up to its loop
PromptStreaming ==
  /\ pc = "ready"
  /\ \E userInput \in {<<>>, <<"h","i">>} :
       conversationHistory' =
         IF userInput # <<>>
           THEN addToHistory(conversationHistory, <<"u","s","e","r">>, userInput)
           ELSE conversationHistory
  /\ currentIteration' = 0
  /\ shouldContinue' = TRUE
  /\ receivedFinalResponse' = FALSE
  /\ pc' = "loop"
  /\ UNCHANGED <<parserVars, sourceVars, script, iterationLimit, generateCalls>>

\* the head of an iteration, up to the call of generateStream
IterationBegin ==
  /\ pc = "loop"
  /\ shouldContinue /\ currentIteration < iterationLimit
  /\ ParserBecomes(reset(Parser))
  /\ receivedFinalResponse' = FALSE
  /\ generateCalls' = generateCalls + 1
  /\ stream' = CurrentDoc.pieces
  /\ finals' = 0
  /\ cuts' = 0
  /\ running' = <<>>
  /\ source' \in {"pieces", "bytes"}
  /\ pc' = "streaming"
  /\ UNCHANGED <<resets, resolved, script, currentIteration, iterationLimit,
                 shouldContinue, conversationHistory>>

\* the rest of an iteration, after generateStream has returned
IterationEnd ==
  /\ pc = "streaming"
  /\ ~crashed
  /\ running = <<>>
  /\ finals >= 1
  /\ currentIteration' = currentIteration + 1
  /\ conversationHistory' =
       IF receivedFinalResponse THEN conversationHistory
       ELSE addToHistory(conversationHistory, <<"a","s","s","i","s","t","a","n","t">>,
                         assistantMessage(currentIteration, actionResults))
  /\ shouldContinue' = (~receivedFinalResponse
                          /\ currentIteration + 1 < iterationLimit)
  /\ pc' = "loop"
  /\ UNCHANGED <<parserVars, sourceVars, script, iterationLimit,
                 receivedFinalResponse, generateCalls>>

\* the loop condition fails and promptStreaming returns
LoopExit ==
  /\ pc = "loop"
  /\ ~(shouldContinue /\ currentIteration < iterationLimit)
  /\ pc' = "returned"
  /\ UNCHANGED <<parserVars, sourceVars, script, currentIteration,
                 iterationLimit, shouldContinue, receivedFinalResponse,
                 conversationHistory, generateCalls>>

\* an Agent as constructed, its parser as promptStreaming creates it, and the
\* model it talks to
InitAgent ==
  /\ ParserIs(NewParser(TRUE, TRUE))
  \* the model's turns in one prompt; the last turn repeats
  /\ script \in {<<DocFinal>>, <<DocNonFinal>>, <<DocNonFinal, DocFinal>>,
                 <<DocHello, DocSimple>>, <<DocNonFinal, DocBare>>}
  /\ stream = <<>>
  /\ finals = 0
  /\ resets = 0
  /\ resolved = <<>>
  /\ source = "pieces"
  /\ cuts = 0
  /\ running = <<>>
  /\ pc = "ready"
  /\ currentIteration = 0
  /\ iterationLimit = 10
  /\ shouldContinue = FALSE
  /\ receivedFinalResponse = FALSE
  /\ conversationHistory = <<>>
  /\ generateCalls = 0

NextAgent ==
  \/ SetIterationCap \/ PromptStreaming \/ IterationBegin
  \/ DeliverPieces \/ DeliverPart \/ DeliverByte \/ DeliverEnd
  \/ IterationEnd \/ LoopExit

SpecAgent == InitAgent /\ [][NextAgent]_vars

-----------------------------------------------------------------------------
(* Variable resolution on its own: the parser has run one action whose      *)
(* result is stored under k, and a response body is about to arrive.        *)

StoreAction ==
  <<<<"<","a","c","t","i","o","n"," ","i","d","=","\"","a","1","\"",">">>, <<"{","\"","n","a","m","e","\"",":","\"","t","\"",",","\"","o","u","t","p","u","t","_","k","e","y","\"",":","\"","k","\"","}">>,
    <<"<","/","a","c","t","i","o","n",">">>>>

ResponseDoc(body) ==
  [ids |-> {},
   pieces |-> <<<<"<","r","e","s","p","o","n","s","e"," ","f","i","n","a","l","=","\"","t","r","u","e","\"",">">>, body, <<"<","/","r","e","s","p","o","n","s","e",">">>>>]

RECURSIVE FeedPieces(_, _, _)
\* parseToken called once for each piece
FeedPieces(P, pieces, env) ==
  IF pieces = <<>> THEN P
  ELSE FeedPieces(parseToken(P, pieces[1], FALSE, env), Tail(pieces), env)

InitResolve ==
  /\ \E v \in {JStr(<<>>), JStr(<<"x">>), JBool(TRUE), JNull, JArr(<<JInt(1)>>)} :
       ParserIs(FeedPieces(NewParser(TRUE, TRUE), StoreAction,
                           [throws |-> {}, returns |-> v,
                            checkedIterators |-> FALSE]))
  /\ \E body \in {<<"a","$","k">>, <<"$","k">>, <<"$","k"," ","$","z">>, <<"$","k","k">>} :
       /\ script = <<ResponseDoc(body)>>
       /\ stream = ResponseDoc(body).pieces
  /\ finals = 0
  /\ resets = 0
  /\ resolved = <<>>
  /\ source \in {"pieces", "bytes"}
  /\ cuts = 0
  /\ running = <<>>
  /\ pc = "direct"
  /\ currentIteration = 0
  /\ iterationLimit = 10
  /\ shouldContinue = FALSE
  /\ receivedFinalResponse = FALSE
  /\ conversationHistory = <<>>
  /\ generateCalls = 0

NextResolve == DeliverPieces \/ DeliverPart \/ DeliverByte \/ DeliverEnd

SpecResolve == InitResolve /\ [][NextResolve]_vars

-----------------------------------------------------------------------------
(* Execution modes, failure policy, internal actions and broken input: a    *)
(* Parser is fed one document that uses them.                               *)

\* set_variable, then delete_variable of the same key
DocInternal ==
  [ids |-> {},
   pieces |-> <<<<"<","a","c","t","i","o","n"," ","t","y","p","e","=","\"","i","n","t","e","r","n","a","l","\""," ","i","d","=","\"","v","1","\"",">">>,
                <<"{","\"","n","a","m","e","\"",":","\"","s","e","t","_","v","a","r","i","a","b","l","e","\"",",","\"","p","a","r","a","m","e","t","e","r","s","\"",":","{","\"","k","e","y","\"",":","\"","k","\"",",","\"","v","a","l","u","e","\"",":","\"","x","\"","}","}">>,
                <<"<","/","a","c","t","i","o","n",">">>,
                <<"<","a","c","t","i","o","n"," ","t","y","p","e","=","\"","i","n","t","e","r","n","a","l","\""," ","i","d","=","\"","v","2","\"",">">>,
                <<"{","\"","n","a","m","e","\"",":","\"","d","e","l","e","t","e","_","v","a","r","i","a","b","l","e","\"",",","\"","p","a","r","a","m","e","t","e","r","s","\"",":","{","\"","k","e","y","\"",":","\"","k","\"","}","}">>,
                <<"<","/","a","c","t","i","o","n",">">>>>]

\* an action whose result is stored under k, then delete_variable of k
DocDelete ==
  [ids |-> {<<"a","1">>},
   pieces |-> <<<<"<","a","c","t","i","o","n"," ","i","d","=","\"","a","1","\"",">">>, <<"{","\"","n","a","m","e","\"",":","\"","t","\"",",","\"","o","u","t","p","u","t","_","k","e","y","\"",":","\"","k","\"","}">>, <<"<","/","a","c","t","i","o","n",">">>,
                <<"<","a","c","t","i","o","n"," ","t","y","p","e","=","\"","i","n","t","e","r","n","a","l","\""," ","i","d","=","\"","v","6","\"",">">>,
                <<"{","\"","n","a","m","e","\"",":","\"","d","e","l","e","t","e","_","v","a","r","i","a","b","l","e","\"",",","\"","p","a","r","a","m","e","t","e","r","s","\"",":","{","\"","k","e","y","\"",":","\"","k","\"","}","}">>,
                <<"<","/","a","c","t","i","o","n",">">>>>]

\* an action whose body is not JSON, followed by a response
DocMalformed ==
  [ids |-> {},
   pieces |-> <<<<"<","a","c","t","i","o","n"," ","i","d","=","\"","x","1","\"",">">>, <<"{","x","}">>, <<"<","/","a","c","t","i","o","n",">">>,
                <<"<","r","e","s","p","o","n","s","e",">">>, <<"o","k">>, <<"<","/","r","e","s","p","o","n","s","e",">">>>>]

\* the stream ends inside a response, inside an action
DocOpenResponse ==
  [ids |-> {},
   pieces |-> <<<<"<","r","e","s","p","o","n","s","e"," ","f","i","n","a","l","=","\"","t","r","u","e","\"",">">>, <<"a","b","c">>>>]

DocOpenAction ==
  [ids |-> {<<"u","1">>},
   pieces |-> <<<<"<","a","c","t","i","o","n"," ","i","d","=","\"","u","1","\"",">">>, <<"{","\"","n","a","m","e","\"",":","\"","t","\"","}">>>>]

\* a response whose line has three backticks in its middle, the chunk before
\* them ending right there
DocFence ==
  [ids |-> {},
   pieces |-> <<<<"<","r","e","s","p","o","n","s","e",">">>, <<"a">>, <<BackTick,BackTick,BackTick,"b">>, <<"<","/","r","e","s","p","o","n","s","e",">">>>>]

\* q2 and q3 both wait for q1, which follows them
DocFanOut ==
  [ids |-> {<<"q","1">>, <<"q","2">>, <<"q","3">>},
   pieces |-> <<<<"<","a","c","t","i","o","n"," ","i","d","=","\"","q","2","\"",">">>, <<"{","\"","n","a","m","e","\"",":","\"","t","\"",",","\"","d","e","p","e","n","d","s","_","o","n","\"",":","[","\"","q","1","\"","]","}">>, <<"<","/","a","c","t","i","o","n",">">>,
                <<"<","a","c","t","i","o","n"," ","i","d","=","\"","q","3","\"",">">>, <<"{","\"","n","a","m","e","\"",":","\"","t","\"",",","\"","d","e","p","e","n","d","s","_","o","n","\"",":","[","\"","q","1","\"","]","}">>, <<"<","/","a","c","t","i","o","n",">">>,
                <<"<","a","c","t","i","o","n"," ","i","d","=","\"","q","1","\"",">">>, <<"{","\"","n","a","m","e","\"",":","\"","t","\"","}">>, <<"<","/","a","c","t","i","o","n",">">>>>]

\* an action inside a thought that goes on after it
DocEmbedded ==
  [ids |-> {<<"e","1">>},
   pieces |-> <<<<"<","t","h","o","u","g","h","t",">">>, <<"h","m">>, <<"<","a","c","t","i","o","n"," ","i","d","=","\"","e","1","\"",">">>, <<"{","\"","n","a","m","e","\"",":","\"","t","\"","}">>,
                <<"<","/","a","c","t","i","o","n",">">>, <<"o","k">>, <<"<","/","t","h","o","u","g","h","t",">">>>>]

ScenarioDocs ==
  {
   \* an action opens inside a response that is never closed
   [ids |-> {<<"a">>},
    pieces |-> <<<<"<","r","e","s","p","o","n","s","e",">">>, <<"o","l","d">>, <<"<","a","c","t","i","o","n"," ","i","d","=","\"","a","\"",">">>, <<"{","\"","n","a","m","e","\"",":","\"","t","\"","}">>, <<"<","/","a","c","t","i","o","n",">">>,
                 <<"<","r","e","s","p","o","n","s","e",">">>, <<"n","e","w">>, <<"<","/","r","e","s","p","o","n","s","e",">">>>>],
   \* x waits for p and p waits for a, which follows them
   [ids |-> {<<"x">>, <<"p">>, <<"a">>},
    pieces |-> <<<<"<","a","c","t","i","o","n"," ","i","d","=","\"","x","\"",">">>, <<"{","\"","n","a","m","e","\"",":","\"","t","\"",",","\"","d","e","p","e","n","d","s","_","o","n","\"",":","[","\"","p","\"","]","}">>, <<"<","/","a","c","t","i","o","n",">">>,
                 <<"<","a","c","t","i","o","n"," ","i","d","=","\"","p","\"",">">>, <<"{","\"","n","a","m","e","\"",":","\"","t","\"",",","\"","d","e","p","e","n","d","s","_","o","n","\"",":","[","\"","a","\"","]","}">>, <<"<","/","a","c","t","i","o","n",">">>,
                 <<"<","a","c","t","i","o","n"," ","i","d","=","\"","a","\"",">">>, <<"{","\"","n","a","m","e","\"",":","\"","t","\"","}">>, <<"<","/","a","c","t","i","o","n",">">>>>],
   \* w names $q in its parameters and waits for q; u names $q after q
   [ids |-> {<<"q">>, <<"w">>, <<"u">>},
    pieces |-> <<<<"<","a","c","t","i","o","n"," ","i","d","=","\"","w","\"",">">>, <<"{","\"","n","a","m","e","\"",":","\"","t","\"",",","\"","p","a","r","a","m","e","t","e","r","s","\"",":","[","\"","$","q","\"","]",",","\"","d","e","p","e","n","d","s","_","o","n","\"",":","[","\"","q","\"","]","}">>, <<"<","/","a","c","t","i","o","n",">">>,
                 <<"<","a","c","t","i","o","n"," ","i","d","=","\"","q","\"",">">>, <<"{","\"","n","a","m","e","\"",":","\"","t","\"","}">>, <<"<","/","a","c","t","i","o","n",">">>,
                 <<"<","a","c","t","i","o","n"," ","i","d","=","\"","u","\"",">">>, <<"{","\"","n","a","m","e","\"",":","\"","t","\"",",","\"","p","a","r","a","m","e","t","e","r","s","\"",":","[","\"","$","q","\"","]","}">>, <<"<","/","a","c","t","i","o","n",">">>>>],
   \* a thought of more than ten bytes with a newline in it
   [ids |-> {},
    pieces |-> <<<<"<","t","h","o","u","g","h","t",">">>, <<"a","b","c","d","e","f","g","h","i","j","k","l","\n","m","n">>, <<"<","/","t","h","o","u","g","h","t",">">>>>],
   \* an action in mode fire_and_forget whose result has an output key
   [ids |-> {<<"f","1">>},
    pieces |-> <<<<"<","a","c","t","i","o","n"," ","m","o","d","e","=","\"","f","i","r","e","_","a","n","d","_","f","o","r","g","e","t","\""," ","i","d","=","\"","f","1","\"",">">>,
    <<"{","\"","n","a","m","e","\"",":","\"","t","\"",",","\"","o","u","t","p","u","t","_","k","e","y","\"",":","\"","k","\"","}">>, <<"<","/","a","c","t","i","o","n",">">>>>],
   \* an action with retry_count 2
   [ids |-> {<<"r","1">>},
    pieces |-> <<<<"<","a","c","t","i","o","n"," ","i","d","=","\"","r","1","\"",">">>,
    <<"{","\"","n","a","m","e","\"",":","\"","t","\"",",","\"","r","e","t","r","y","_","c","o","u","n","t","\"",":","2","}">>, <<"<","/","a","c","t","i","o","n",">">>>>],
   DocInternal,
   \* an action whose result is stored, then clear_context
   [ids |-> {<<"a","1">>},
    pieces |-> <<<<"<","a","c","t","i","o","n"," ","i","d","=","\"","a","1","\"",">">>, <<"{","\"","n","a","m","e","\"",":","\"","t","\"","}">>, <<"<","/","a","c","t","i","o","n",">">>,
    <<"<","a","c","t","i","o","n"," ","t","y","p","e","=","\"","i","n","t","e","r","n","a","l","\""," ","i","d","=","\"","v","3","\"",">">>,
    <<"{","\"","n","a","m","e","\"",":","\"","c","l","e","a","r","_","c","o","n","t","e","x","t","\"","}">>, <<"<","/","a","c","t","i","o","n",">">>>>],
   DocDelete,
   DocMalformed,
   DocOpenResponse,
   DocOpenAction,
   DocFence,
   \* two actions that give the same id
   [ids |-> {<<"a","1">>},
    pieces |-> <<<<"<","a","c","t","i","o","n"," ","i","d","=","\"","a","1","\"",">">>, <<"{","\"","n","a","m","e","\"",":","\"","t","\"","}">>, <<"<","/","a","c","t","i","o","n",">">>,
    <<"<","a","c","t","i","o","n"," ","i","d","=","\"","a","1","\"",">">>, <<"{","\"","n","a","m","e","\"",":","\"","u","\"","}">>, <<"<","/","a","c","t","i","o","n",">">>>>],
   \* w2 waits for the internal action v1, which follows it
   [ids |-> {<<"w","2">>},
    pieces |-> <<<<"<","a","c","t","i","o","n"," ","i","d","=","\"","w","2","\"",">">>, <<"{","\"","n","a","m","e","\"",":","\"","t","\"",",","\"","d","e","p","e","n","d","s","_","o","n","\"",":","[","\"","v","1","\"","]","}">>, <<"<","/","a","c","t","i","o","n",">">>,
    <<"<","a","c","t","i","o","n"," ","t","y","p","e","=","\"","i","n","t","e","r","n","a","l","\""," ","i","d","=","\"","v","1","\"",">">>, <<"{","\"","n","a","m","e","\"",":","\"","c","l","e","a","r","_","c","o","n","t","e","x","t","\"","}">>, <<"<","/","a","c","t","i","o","n",">">>>>],
   DocFanOut,
   DocEmbedded
  }

InitScenarios ==
  /\ \E hasExecutor \in BOOLEAN, hasCallback \in BOOLEAN :
       /\ hasExecutor \/ hasCallback
       /\ ParserIs(NewParser(hasExecutor, hasCallback))
  /\ \E doc \in ScenarioDocs :
       /\ script = <<doc>>
       /\ stream = doc.pieces
  /\ finals = 0
  /\ resets = 0
  /\ resolved = <<>>
  /\ source \in {"pieces", "bytes"}
  /\ cuts = 0
  /\ running = <<>>
  /\ pc = "direct"
  /\ currentIteration = 0
  /\ iterationLimit = 10
  /\ shouldContinue = FALSE
  /\ receivedFinalResponse = FALSE
  /\ conversationHistory = <<>>
  /\ generateCalls = 0

NextScenarios ==
  \/ DeliverPieces \/ DeliverPart \/ DeliverByte \/ DeliverEnd
  \/ ExecutorReturns

SpecScenarios == InitScenarios /\ [][NextScenarios]_vars

-----------------------------------------------------------------------------
(* Turns with actions: the model answers a prompt in several iterations,    *)
(* storing action results in some of them.                                  *)

\* an action whose result is stored under k and a response that is not final
DocStore ==
  [ids |-> {<<"a","1">>},
   pieces |-> <<<<"<","a","c","t","i","o","n"," ","i","d","=","\"","a","1","\"",">">>, <<"{","\"","n","a","m","e","\"",":","\"","t","\"",",","\"","o","u","t","p","u","t","_","k","e","y","\"",":","\"","k","\"","}">>, <<"<","/","a","c","t","i","o","n",">">>,
                <<"<","r","e","s","p","o","n","s","e"," ","f","i","n","a","l","=","\"","f","a","l","s","e","\"",">">>, <<"r">>, <<"<","/","r","e","s","p","o","n","s","e",">">>>>]

\* a response that refers to k
DocUse ==
  [ids |-> {},
   pieces |-> <<<<"<","r","e","s","p","o","n","s","e",">">>, <<"v","=","$","k">>, <<"<","/","r","e","s","p","o","n","s","e",">">>>>]

InitTurns ==
  /\ ParserIs(NewParser(TRUE, TRUE))
  /\ script \in {<<DocStore, DocUse>>, <<DocStore, DocStore, DocUse>>}
  /\ stream = <<>>
  /\ finals = 0
  /\ resets = 0
  /\ resolved = <<>>
  /\ source = "pieces"
  /\ cuts = 0
  /\ running = <<>>
  /\ pc = "ready"
  /\ currentIteration = 0
  /\ iterationLimit = 10
  /\ shouldContinue = FALSE
  /\ receivedFinalResponse = FALSE
  /\ conversationHistory = <<>>
  /\ generateCalls = 0

NextTurns ==
  \/ PromptStreaming \/ IterationBegin
  \/ DeliverPieces \/ DeliverPart \/ DeliverByte \/ DeliverEnd
  \/ ExecutorReturns \/ IterationEnd \/ LoopExit

SpecTurns == InitTurns /\ [][NextTurns]_vars

-----------------------------------------------------------------------------
(* The private function resolveVariables(const std::string&) applied to a   *)
(* string and again to its own result, over a store an action has filled.   *)

MaxResolves == 2     \* calls of resolveVariables made on one string

InitIdempotence ==
  \* what the executor returned for the action stored under k and a1
  /\ \E v \in {JStr(<<"x">>), JStr(<<"k">>), JStr(<<"a","1">>),
               JStr(<<"$","k">>), JBool(TRUE), JArr(<<JInt(1)>>)} :
       ParserIs(FeedPieces(NewParser(TRUE, TRUE), StoreAction,
                           [throws |-> {}, returns |-> v,
                            checkedIterators |-> FALSE]))
  /\ \E input \in {<<"$","k">>, <<"$","$","k">>, <<"a","$","k"," ","$","z">>,
                   <<"$","$","z">>, <<"$","a","1","$","k">>, <<"$">>,
                   <<"$","$","a","1">>} :
       resolved = <<input>>
  /\ script = <<DocHello>>
  /\ stream = <<>>
  /\ finals = 0
  /\ resets = 0
  /\ source = "pieces"
  /\ cuts = 0
  /\ running = <<>>
  /\ pc = "direct"
  /\ currentIteration = 0
  /\ iterationLimit = 10
  /\ shouldContinue = FALSE
  /\ receivedFinalResponse = FALSE
  /\ conversationHistory = <<>>
  /\ generateCalls = 0

\* Parser::resolveVariables(const std::string&) applied to the string it
\* returned last
ResolveVariables ==
  /\ pc = "direct"
  /\ resolved # <<>>
  /\ Len(resolved) <= MaxResolves
  /\ resolved' = Append(resolved,
                        resolveVariables(Parser, resolved[Len(resolved)]))
  /\ UNCHANGED <<parserVars, stream, finals, resets, source, cuts, running,
                 agentVars>>

SpecIdempotence == InitIdempotence /\ [][ResolveVariables]_vars

-----------------------------------------------------------------------------
(* A parser that is reset in the middle of a document which has given it a  *)
(* context feed, a stored result, a pending action and an open thought.     *)

DocBusy ==
  [ids |-> {<<"a","1">>},
   pieces |-> <<<<"<","c","o","n","t","e","x","t","_","f","e","e","d"," ","i","d","=","\"","f","1","\"",">">>, <<"x">>, <<"<","/","c","o","n","t","e","x","t","_","f","e","e","d",">">>,
                <<"<","a","c","t","i","o","n"," ","i","d","=","\"","a","1","\"",">">>, <<"{","\"","n","a","m","e","\"",":","\"","t","\"",",","\"","o","u","t","p","u","t","_","k","e","y","\"",":","\"","k","\"","}">>, <<"<","/","a","c","t","i","o","n",">">>,
                <<"<","a","c","t","i","o","n"," ","i","d","=","\"","w","2","\"",">">>, <<"{","\"","n","a","m","e","\"",":","\"","t","\"",",","\"","d","e","p","e","n","d","s","_","o","n","\"",":","[","\"","z","\"","]","}">>, <<"<","/","a","c","t","i","o","n",">">>,
                <<"<","t","h","o","u","g","h","t",">">>, <<"h","m">>>>]

InitReset ==
  /\ \E hasExecutor \in BOOLEAN, hasCallback \in BOOLEAN :
       /\ hasExecutor \/ hasCallback
       /\ ParserIs(NewParser(hasExecutor, hasCallback))
  /\ script = <<DocBusy>>
  /\ stream = DocBusy.pieces
  /\ finals = 0
  /\ resets = 0
  /\ resolved = <<>>
  /\ source \in {"pieces", "bytes"}
  /\ cuts = 0
  /\ running = <<>>
  /\ pc = "direct"
  /\ currentIteration = 0
  /\ iterationLimit = 10
  /\ shouldContinue = FALSE
  /\ receivedFinalResponse = FALSE
  /\ conversationHistory = <<>>
  /\ generateCalls = 0

SpecReset == InitReset /\ [][Next]_vars

-----------------------------------------------------------------------------
(* Properties *)

\* C1: every action handed to the ActionExecutor had, at the moment of the
\* call, every id of its depends_on list recorded as completed = true,
\* whether it ran at parse time or was released from the pending list
C1_DependenciesCompletedAtDispatch ==
  \A i \in 1..Len(calls) :
    \A k \in 1..Len(calls[i].action.dependsOn) :
      /\ Has(calls[i].completedAtCall, calls[i].action.dependsOn[k])
      /\ calls[i].completedAtCall[calls[i].action.dependsOn[k]]

\* three actions were handed over, the second one released from the pending
\* list once the action it depends on had completed
C1_Witness ==
  /\ Len(calls) = 3
  /\ calls[2].action.dependsOn # <<>>
  /\ calls[2].action.id = <<"b","2">>
  /\ pendingActions = <<>>

\* C2: once the executor has thrown for an action whose skip_on_error is
\* false, the action is recorded as not completed and no action that depends
\* on it is handed to the executor afterwards
C2_FailedDependencyBlocks ==
  \A i \in 1..Len(calls) :
    (calls[i].threw /\ ~calls[i].action.skipOnError) =>
      /\ Has(actionCompleted, calls[i].action.id)
           => ~actionCompleted[calls[i].action.id]
      /\ \A j \in (i + 1)..Len(calls) :
           \A k \in 1..Len(calls[j].action.dependsOn) :
             calls[j].action.dependsOn[k] # calls[i].action.id

\* C3: once the end of a stream without any tag (hello) has been signalled,
\* exactly one Response event has been emitted, carrying the untagged text,
\* is_final = true and fallback = true
C3_UntaggedFallback ==
  (pc = "direct" /\ CurrentDoc = DocHello /\ tokenCallback /\ finals >= 1) =>
    events = <<TokenEvent("RESPONSE", DocHello.pieces[1],
                          [is_final |-> BoolStr(TRUE), fallback |-> BoolStr(TRUE)])>>

\* C4: when the end of the stream is signalled, the events emitted for the
\* chunks delivered are the events emitted for the whole output delivered as
\* a single chunk
C4_ChunkingInvariance ==
  (pc = "direct" /\ resets = 0 /\ finals = 1 /\ ~crashed) =>
    events =
      parseToken(NewParser(actionExecutor, tokenCallback),
                 Flatten(CurrentDoc.pieces), TRUE,
                 [throws |-> {calls[i].action.id :
                                i \in {j \in 1..Len(calls) : calls[j].threw}},
                  returns |-> JInt(7),
                  checkedIterators |-> FALSE]).events

\* C5: an iteration whose model output contains a well-formed
\* <response final="true"> body ends the loop: no further iteration follows
\* and no iteration envelope is appended to the history
C5_FinalResponseStopsLoop ==
  [][(/\ pc = "streaming"
      /\ pc' = "loop"
      /\ Find(Flatten(CurrentDoc.pieces), <<"<","r","e","s","p","o","n","s","e"," ","f","i","n","a","l","=","\"","t","r","u","e","\"",">">>, 1) # 0)
       => (~shouldContinue' /\ conversationHistory' = conversationHistory)]_vars

\* C6: the token source is invoked at most iterationLimit times per prompt,
\* iterationLimit is positive, every model turn advances the loop by exactly
\* one iteration, and a prompt that returns without a final response has
\* invoked the token source exactly iterationLimit times
C6_IterationCap ==
  /\ iterationLimit > 0
  /\ generateCalls <= iterationLimit
  /\ pc \in {"loop", "returned"} => currentIteration = generateCalls
  /\ pc = "streaming" => currentIteration + 1 = generateCalls
  /\ (pc = "returned" /\ ~receivedFinalResponse) => generateCalls = iterationLimit

\* a prompt under a cap of 3 has returned after three turns without a final
\* response
C6_Witness ==
  /\ pc = "returned"
  /\ ~receivedFinalResponse
  /\ iterationLimit = 3
  /\ generateCalls = 3
  /\ Len(conversationHistory) >= 3

\* C7: when the end of the stream is signalled, the contents of the Thought
\* events, concatenated in emission order, are exactly the characters between
\* <thought> and </thought> of the output
C7_ThoughtsLossless ==
  (pc = "direct" /\ tokenCallback /\ finals >= 1 /\ ~crashed) =>
    LET text == Flatten(CurrentDoc.pieces)
        open == Find(text, <<"<","t","h","o","u","g","h","t",">">>, 1)
        close == Find(text, <<"<","/","t","h","o","u","g","h","t",">">>, 1)
        thoughts == SelectSeq(events, LAMBDA e : e.type = "THOUGHT")
    IN  Flatten([k \in 1..Len(thoughts) |-> thoughts[k].content])
          = IF open = 0 THEN <<>> ELSE SubSeq(text, open + 9, close - 1)

RECURSIVE C8_Resolved(_, _, _)
\* the response body s from position i on, every $IDENT replaced as C8
\* states: an identifier absent from the store stays literally, a present one
\* becomes the rendering of its value
C8_Resolved(store, s, i) ==
  IF i > Len(s) THEN <<>>
  ELSE IF s[i] = "$" /\ i < Len(s) /\ s[i + 1] \in WordChars THEN
    LET after == FirstNotIn(s, WordChars, i + 1)
        stop == IF after = 0 THEN Len(s) + 1 ELSE after
        name == SubSeq(s, i + 1, stop - 1)
        value == store[name]
    IN  (IF ~Has(store, name) THEN SubSeq(s, i, stop - 1)
         ELSE IF value[1] = "str" THEN value[2]
         ELSE IF value[1] = "int" THEN to_string(value[2])
         ELSE IF value[1] = "bool" THEN BoolStr(value[2])
         ELSE IF value[1] = "null" THEN <<"n","u","l","l">>
         ELSE writeString(value))
          \o C8_Resolved(store, s, stop)
  ELSE <<s[i]>> \o C8_Resolved(store, s, i + 1)

\* C8: the Response emitted when </response> arrives carries the accumulated
\* body with each $IDENT left literally when absent from the store and
\* replaced by the rendering of its value when present
C8_ResponseSubstitution ==
  [][(/\ state = "IN_RESPONSE"
      /\ buffer = <<>>
      /\ stream = <<<<"<","/","r","e","s","p","o","n","s","e",">">>>>
      /\ stream' = <<>>
      /\ Len(events') = Len(events) + 1
      /\ events'[Len(events')].type = "RESPONSE")
       => events'[Len(events')].content
            = C8_Resolved(actionResults, currentResponse, 1)]_vars

\* C9: the stream <thought>, one async tool action a1 with an output key k,
\* <response final="true"> mentioning $k, delivered as one final chunk with an
\* executor that returns, yields Thought, ActionStart(a1), ActionComplete(a1)
\* and the Response with $k replaced, in this order
C9_SingleChunkScenario ==
  [][(/\ pc = "direct"
      /\ actionExecutor /\ tokenCallback
      /\ state = "IDLE" /\ buffer = <<>> /\ events = <<>>
      /\ stream = DocAction.pieces
      /\ stream' = <<>>
      /\ finals' = 1
      /\ \A i \in 1..Len(calls') : ~calls'[i].threw)
       => /\ Len(events') = 4
          /\ events'[1].type = "THOUGHT"
          /\ events'[1].content = DocAction.pieces[2]
          /\ events'[2].type = "ACTION_START"
          /\ events'[2].metadata.action_id = <<"a","1">>
          /\ events'[3].type = "ACTION_COMPLETE"
          /\ events'[3].metadata.action_id = <<"a","1">>
          /\ events'[4].type = "RESPONSE"
          /\ events'[4].content
               = <<"="," ">> \o replacementFor([actionResults |-> MapPut(EmptyMap, <<"k">>, JInt(7)),
                                           contextFeeds |-> EmptyMap], <<"k">>)
          /\ events'[4].metadata.is_final = BoolStr(TRUE)]_vars

\* C10: an action the executor was called for is recorded as completed if and
\* only if the call returned or skip_on_error is true
C10_CompletedIff ==
  \A i \in 1..Len(calls) :
    (\A j \in (i + 1)..Len(calls) : calls[j].action.id # calls[i].action.id) =>
      /\ Has(actionCompleted, calls[i].action.id)
      /\ actionCompleted[calls[i].action.id]
           = (~calls[i].threw \/ calls[i].action.skipOnError)

\* C11: an action that waits in the pending list, one of its dependencies
\* being unmet, has had no ActionStart event emitted for it; ActionStart
\* comes only when the action is released for dispatch
C11_NoStartWhilePending ==
  \A i \in 1..Len(pendingActions) :
    \A k \in 1..Len(events) :
      events[k].type = "ACTION_START" =>
        events[k].metadata.action_id # pendingActions[i].id

\* C12: the call of the ActionExecutor for an action of mode async does not
\* block the parser: while that call is running and text follows in the
\* stream, the token source can hand the next piece to parseToken
C12_AsyncDoesNotBlock ==
  (running # <<>> /\ running[1].async # {} /\ running[1].rest # <<>>) =>
    ENABLED Token(running[1].rest[1], FALSE, Tail(running[1].rest))

\* C13: an action of mode fire_and_forget is marked completed when it is
\* dispatched, before its executor returns, and what the variable store
\* holds for it is the synthetic value {"status":"dispatched"}, whether the
\* executor returns or throws
C13_FireAndForget ==
  \A i \in 1..Len(calls) :
    calls[i].action.mode = "FIRE_AND_FORGET" =>
      /\ Has(calls[i].completedAtCall, calls[i].action.id)
      /\ calls[i].completedAtCall[calls[i].action.id]
      /\ Has(actionCompleted, calls[i].action.id)
      /\ actionCompleted[calls[i].action.id]
      /\ Has(actionResults, calls[i].action.outputKey)
      /\ actionResults[calls[i].action.outputKey]
           = JObj(MapPut(EmptyMap, <<"s","t","a","t","u","s">>, JStr(<<"d","i","s","p","a","t","c","h","e","d">>)))

\* C14: an action for which every call of the executor threw has been handed
\* to the executor retry_count + 1 times: a failure is followed by an
\* immediate re-dispatch, up to retry_count times
C14_RetryCount ==
  \A i \in 1..Len(calls) :
    LET same == {j \in 1..Len(calls) : calls[j].action.id = calls[i].action.id}
    IN  (\A j \in same : calls[j].threw) =>
          Cardinality(same) = calls[i].action.retryCount + 1

\* C15: when the executor has thrown for an action, an Error event carrying
\* the action's id has been emitted and no ActionComplete event for it, and
\* the variable store holds an error result under the action's output key
C15_FailureRecorded ==
  \A i \in 1..Len(calls) :
    calls[i].threw =>
      /\ tokenCallback =>
           /\ \E k \in 1..Len(events) :
                /\ events[k].type = "ERROR"
                /\ "action_id" \in DOMAIN events[k].metadata
                /\ events[k].metadata.action_id = calls[i].action.id
           /\ \A k \in 1..Len(events) :
                events[k].type = "ACTION_COMPLETE" =>
                  events[k].metadata.action_id # calls[i].action.id
      /\ Has(actionResults,
             IF calls[i].action.outputKey # <<>>
               THEN calls[i].action.outputKey ELSE calls[i].action.id)

\* C16: an action of type internal is never handed to the ActionExecutor, and
\* it takes effect whether or not an executor is configured: once
\* set_variable{key k, value x} has been parsed from the stream (and
\* delete_variable has not), the variable store holds x under k
C16_InternalInProcess ==
  /\ \A i \in 1..Len(calls) : calls[i].action.type # "INTERNAL"
  /\ ( /\ CurrentDoc = DocInternal
       /\ \E n \in 1..Len(events) :
            /\ events[n].type = "ACTION_START"
            /\ events[n].metadata.action_id = <<"v","1">>
       /\ \A n \in 1..Len(events) :
            events[n].type = "ACTION_START" =>
              events[n].metadata.action_id # <<"v","2">> )
     => /\ Has(actionResults, <<"k">>)
        /\ actionResults[<<"k">>] = JStr(<<"x">>)

\* C17: a Response event emitted for a <response> tag without a final
\* attribute has is_final = true, one emitted for <response final="false">
\* has is_final = false; and at the end of an iteration the agent loop stops
\* exactly when a Response event with is_final = true was emitted in it
\* (otherwise it appends the envelope and goes on while the cap allows)
C17_IsFinal ==
  [][/\ pc' = "streaming" =>
          \A k \in 1..Len(events') :
            events'[k].type = "RESPONSE" =>
              /\ CurrentDoc' = DocBare => events'[k].metadata.is_final = BoolStr(TRUE)
              /\ CurrentDoc' = DocNonFinal
                   => events'[k].metadata.is_final = BoolStr(FALSE)
     /\ (pc = "streaming" /\ pc' = "loop") =>
          IF \E k \in 1..Len(events) :
               /\ events[k].type = "RESPONSE"
               /\ events[k].metadata.is_final = BoolStr(TRUE)
            THEN /\ ~shouldContinue'
                 /\ conversationHistory' = conversationHistory
            ELSE /\ shouldContinue' = (currentIteration' < iterationLimit)
                 /\ Len(conversationHistory') = Len(conversationHistory) + 1
    ]_vars

\* a turn with <response final="false"> was followed by a second turn, whose
\* <response> without the attribute ended the loop
C17_Witness ==
  /\ pc = "returned"
  /\ script = <<DocNonFinal, DocBare>>
  /\ generateCalls = 2
  /\ receivedFinalResponse
  /\ Len(events) = 1
  /\ events[1].type = "RESPONSE"
  /\ events[1].metadata.is_final = BoolStr(TRUE)
  /\ Len(conversationHistory) >= 1

\* C18: once a stream with an action whose body is not JSON has been
\* consumed, an Error event has been emitted for the action, the action has
\* been dropped (no ActionStart, no call of the executor, nothing pending,
\* no completion entry) and the parser has left the action: it is not
\* waiting inside it, and the tags after it were processed
C18_MalformedActionDropped ==
  (CurrentDoc = DocMalformed /\ tokenCallback /\ stream = <<>> /\ finals >= 1) =>
    /\ events # <<>>
    /\ events[1].type = "ERROR"
    /\ \A k \in 1..Len(events) : events[k].type # "ACTION_START"
    /\ calls = <<>>
    /\ pendingActions = <<>>
    /\ actionCompleted = EmptyMap
    /\ state # "IN_ACTION"
    /\ currentAction = <<>>


\* C19 as stated: once a stream that ends inside a <response ...> or an
\* <action ...> has been consumed, an Error event has been emitted, no
\* Response event carries the unterminated body and the executor was not
\* called
C19_UnterminatedIsError ==
  (/\ CurrentDoc \in {DocOpenResponse, DocOpenAction}
   /\ tokenCallback /\ stream = <<>> /\ finals >= 1) =>
    /\ \E k \in 1..Len(events) : events[k].type = "ERROR"
    /\ \A k \in 1..Len(events) : events[k].type # "RESPONSE"
    /\ calls = <<>>

\* C19: when the end of the stream is signalled while the parser is inside
\* an unterminated tag, no Error event is emitted; inside a <response ...>
\* the text accumulated so far, with the text of the last token, is emitted
\* as one Response event (none when there is no text); inside an <action ...> the body is not executed:
\* no event, no call of the executor, no completion entry, nothing pending,
\* the body still waiting in the parser
C19_UnterminatedFlushed ==
  [][(finals' = finals + 1 /\ CurrentDoc \in {DocOpenResponse, DocOpenAction}) =>
       /\ \A k \in 1..Len(events') : events'[k].type # "ERROR"
       /\ (state = "IN_RESPONSE" /\ tokenCallback) =>
            events' = IF currentResponse \o Flatten(stream) = <<>>
                        THEN events
                        ELSE Append(events,
                                    TokenEvent("RESPONSE",
                                               currentResponse \o Flatten(stream),
                                               [is_final |-> BoolStr(TRUE)]))
       /\ state = "IN_ACTION" =>
            /\ events' = events
            /\ calls' = calls
            /\ actionCompleted' = actionCompleted
            /\ pendingActions' = pendingActions
            /\ state' = "IN_ACTION"
            /\ currentAction' = currentAction \o Flatten(stream)
    ]_vars

\* the stream ended inside a response whose opening tag and text were
\* delivered in several tokens, and the text came out as a Response event
C19_Witness ==
  /\ CurrentDoc = DocOpenResponse
  /\ stream = <<>> /\ finals >= 1
  /\ cuts >= 1
  /\ state = "IN_RESPONSE"
  /\ Len(events) = 1
  /\ events[1].type = "RESPONSE"
  /\ events[1].content = <<"a","b","c">>
  /\ events[1].metadata.is_final = BoolStr(TRUE)


\* C20 as stated: between two resets no key leaves the variable store
C20_StoreMonotonic ==
  [][resets' = resets =>
       DOMAIN actionResults \subseteq DOMAIN actionResults']_vars

\* C20: between two resets a key leaves the variable store only in a step in
\* which the internal action delete_variable of that key or the internal
\* action clear_context completes; in every other step, the return of the
\* executor included, the keys of the store stay and keys are only added
C20_RemovedOnlyByInternal ==
  [][resets' = resets =>
       \A key \in DOMAIN actionResults :
         ~Has(actionResults', key) =>
           \/ /\ key = <<"k">>
              /\ \E id \in {<<"v","2">>, <<"v","6">>} :
                   /\ ~Has(actionCompleted, id)
                   /\ Has(actionCompleted', id)
           \/ /\ ~Has(actionCompleted, <<"v","3">>)
              /\ Has(actionCompleted', <<"v","3">>)
    ]_vars

\* delete_variable has removed k, which an action had stored, and has left
\* the other key of the store alone
C20_Witness ==
  /\ CurrentDoc = DocDelete
  /\ Len(calls) = 1
  /\ ~calls[1].threw
  /\ Has(actionCompleted, <<"v","6">>)
  /\ ~Has(actionResults, <<"k">>)
  /\ Has(actionResults, <<"a","1">>)


\* C21 as stated: the store is carried into the next iteration: a key
\* registered when an iteration ends is still in the store when the next
\* one begins
C21_StoreCarried ==
  [][(pc = "loop" /\ pc' = "streaming") =>
       \A key \in DOMAIN actionResults :
         /\ Has(actionResults', key)
         /\ actionResults'[key] = actionResults[key]
    ]_vars

\* C21: an iteration without a final response is followed by another one, to
\* which the contents of the store are carried in the history and not in the
\* store: the envelope appended to the history names every key of the store,
\* the parser is reset when the next iteration begins, so that the store and
\* the completion map are empty again, and in that iteration the value of k,
\* registered in the one before, is not put into the response
C21_StoreCarriedInHistory ==
  [][/\ (pc = "streaming" /\ pc' = "loop" /\ ~receivedFinalResponse) =>
          /\ shouldContinue' = (currentIteration' < iterationLimit)
          /\ conversationHistory' # <<>>
          /\ \A key \in DOMAIN actionResults :
               Find(conversationHistory'[Len(conversationHistory')].content,
                    <<"<","r","e","s","u","l","t"," ","k","e","y","=","\"">> \o key \o <<"\"",">">>
                      \o writeString(actionResults[key]) \o <<"<","/","r","e","s","u","l","t",">">>,
                    1) # 0
     /\ (pc = "loop" /\ pc' = "streaming") =>
          /\ actionResults' = EmptyMap
          /\ actionCompleted' = EmptyMap
     /\ (pc' = "streaming" /\ CurrentDoc' = DocUse) =>
          \A n \in 1..Len(events') :
            events'[n].type = "RESPONSE" =>
              Find(events'[n].content, writeString(JInt(7)), 1) = 0
    ]_vars

\* k was registered in the first iteration and carried in the envelope, and
\* the response of the second iteration came out with $k in it
C21_Witness ==
  /\ script = <<DocStore, DocUse>>
  /\ generateCalls = 2
  /\ pc = "returned"
  /\ Len(conversationHistory) >= 1
  /\ Find(conversationHistory[Len(conversationHistory)].content,
          <<"<","r","e","s","u","l","t"," ","k","e","y","=","\"","k","\"",">","7","<","/","r","e","s","u","l","t",">">>, 1) # 0
  /\ Len(events) = 1
  /\ events[1].type = "RESPONSE"
  /\ events[1].content = <<"v","=","$","k">>
  /\ actionResults = EmptyMap

\* C22: when no value of the store, as resolveVariables writes it, holds a
\* $name pattern, resolving the result of a resolution gives that result
\* again: resolve(resolve(s)) = resolve(s)
C22_Idempotent ==
  (/\ Len(resolved) >= 3
   /\ \A key \in DOMAIN actionResults :
        \A i \in 1..(Len(replacementFor(Parser, key)) - 1) :
          ~(/\ replacementFor(Parser, key)[i] = "$"
            /\ replacementFor(Parser, key)[i + 1] \in WordChars))
    => resolved[3] = resolved[2]

C24_CapNoticeDelivered ==
  [][(/\ pc = "streaming"
      /\ pc' = "loop"
      /\ ~receivedFinalResponse
      /\ currentIteration' >= iterationLimit) =>
       /\ Len(events') = Len(events) + 1
       /\ events'[Len(events')].type \in {"ERROR", "RESPONSE"}]_vars

\* C25: three backticks in the middle of a line of a response body are kept:
\* a Response that has the text after them has the backticks in front of it,
\* however the body was cut into chunks
C25_FencePreserved ==
  CurrentDoc = DocFence =>
    \A n \in 1..Len(events) :
      (events[n].type = "RESPONSE" /\ Find(events[n].content, <<"b">>, 1) # 0)
        => Find(events[n].content, <<BackTick,BackTick,BackTick,"b">>, 1) # 0

\* C26: an action whose id is that of an action handed to the executor
\* before is not handed to the executor silently: when two calls of the
\* executor carry the same id, the callback has got an Error event that does
\* not report a failed call
C26_UniqueIds ==
  \A i, j \in 1..Len(calls) :
    (tokenCallback /\ i < j /\ calls[i].action.id = calls[j].action.id) =>
      Cardinality({n \in 1..Len(events) : events[n].type = "ERROR"})
        > Cardinality({n \in 1..Len(calls) : calls[n].threw})

\* C27: when a call of parseToken has returned, the pending list holds no
\* action all of whose depends_on ids are completed: after every completion
\* the list has been scanned until nothing runnable was left in it
C27_NoRunnablePending ==
  (running = <<>> /\ ~crashed) =>
    \A n \in 1..Len(pendingActions) :
      ~canExecuteAction(Parser, pendingActions[n])

C29_EmbeddedInThought ==
  (CurrentDoc = DocEmbedded /\ events # <<>> /\ events[1].type = "THOUGHT") =>
    /\ \A i \in 1..Len(calls) : calls[i].action.embeddedInThought
    /\ (/\ stream = <<<<"o","k">>, <<"<","/","t","h","o","u","g","h","t",">">>>>
        /\ running = <<>>
        /\ \E n \in 1..Len(events) : events[n].type = "ACTION_START")
         => state = "IN_THOUGHT"

\* C30: reset puts the parser into Idle and empties the buffer, the four
\* accumulators, the current attributes, the action results, the completion
\* map, the pending list and the thought-emission position; the context
\* feeds, the executor and the token callback are what they were
C30_ResetClears ==
  [][resets' = resets + 1 =>
       /\ state' = "IDLE"
       /\ buffer' = <<>>
       /\ currentThought' = <<>>
       /\ currentAction' = <<>>
       /\ currentResponse' = <<>>
       /\ currentContextFeed' = <<>>
       /\ currentAttributes' = EmptyMap
       /\ actionResults' = EmptyMap
       /\ actionCompleted' = EmptyMap
       /\ pendingActions' = <<>>
       /\ lastEmittedThoughtPos' = 0
       /\ contextFeeds' = contextFeeds
       /\ actionExecutor' = actionExecutor
       /\ tokenCallback' = tokenCallback]_vars

\* the parser has just been reset, and the feed f1 it got before is still
\* there while the store, the completion map and the pending list are empty
C30_Witness ==
  /\ resets = 1
  /\ stream = script[1].pieces
  /\ Has(contextFeeds, <<"f","1">>)
  /\ contextFeeds[<<"f","1">>].content = <<"x">>
  /\ actionExecutor
  /\ tokenCallback
  /\ state = "IDLE"
  /\ actionResults = EmptyMap
  /\ actionCompleted = EmptyMap
  /\ pendingActions = <<>>
  /\ currentThought = <<>>

\* C31: with a token callback set, every Thought event carries between one
\* and ten bytes and has a newline nowhere but at its end, and when a call of
\* parseToken has returned every accumulated thought byte has been emitted
C31_ThoughtChunks ==
  tokenCallback =>
    /\ \A n \in 1..Len(events) :
         events[n].type = "THOUGHT" =>
           /\ Len(events[n].content) \in 1..10
           /\ \A i \in 1..(Len(events[n].content) - 1) :
                events[n].content[i] # "\n"
    /\ (running = <<>> /\ ~crashed) =>
         lastEmittedThoughtPos = Len(currentThought)

\* the thought abcdefghijkl\nmn came in one chunk and went out as ten bytes,
\* the bytes up to the newline, and the rest
C31_Witness ==
  /\ Len(events) = 3
  /\ events[1] = TokenEvent("THOUGHT", <<"a","b","c","d","e","f","g","h","i","j">>, [x \in {} |-> <<>>])
  /\ events[2] = TokenEvent("THOUGHT", <<"k","l","\n">>, [x \in {} |-> <<>>])
  /\ events[3] = TokenEvent("THOUGHT", <<"m","n">>, [x \in {} |-> <<>>])
  /\ state = "IN_THOUGHT"
  /\ lastEmittedThoughtPos = 15

\* C32: an action released from the pending list reaches the executor with
\* the parameters it was put into the list with, those resolved when it was
\* parsed: w, parsed before q has a result, is called with $q still in them,
\* while u, parsed after q, is called with the value of q
C32_ParametersFixedAtParse ==
  [][/\ \A m \in 1..Len(pendingActions) :
          \A i \in (Len(calls) + 1)..Len(calls') :
            calls'[i].action.id = pendingActions[m].id =>
              calls'[i].action.parameters = pendingActions[m].parameters
     /\ \A i \in 1..Len(calls') :
          (/\ calls'[i].action.id = <<"w">>
           /\ calls'[i].action.dependsOn = <<<<"q">>>>) =>
            calls'[i].action.parameters = JArr(<<JStr(<<"$","q">>)>>)]_vars

\* q returned 7, then w was released and called with $q, and u with 7
C32_Witness ==
  /\ Len(calls) = 3
  /\ calls[1].action.id = <<"q">>
  /\ ~calls[1].threw
  /\ calls[2].action.id = <<"w">>
  /\ Has(calls[2].completedAtCall, <<"q">>)
  /\ calls[2].action.parameters = JArr(<<JStr(<<"$","q">>)>>)
  /\ calls[3].action.id = <<"u">>
  /\ calls[3].action.parameters = JArr(<<JStr(<<"7",".","0","0","0","0","0","0">>)>>)
  /\ actionResults[<<"q">>] = JInt(7)

\* C33: in a build with plain iterators no call of parseToken leaves the
\* position of a scan of pendingActions beyond the end of the list that the
\* nested scans have shortened
C33_ScanPositionInRange ==
  (stream # <<>> /\ ~crashed) => ~Quiet(stream[1], FALSE).crashed

\* C34: in a content state, body text and the tag that follows it, arriving
\* in one chunk, give the events and the executor calls they give when the
\* text arrives first and is appended to the body and the tag arrives next
C34_TextBeforeTagKept ==
  (/\ running = <<>> /\ ~crashed
   /\ state \in {"IN_THOUGHT", "IN_ACTION", "IN_RESPONSE"}
   /\ Len(stream) >= 2
   /\ stream[2][1] = "<"
   /\ \A i \in 1..Len(stream[1]) : stream[1][i] \notin {"<", BackTick}) =>
    LET one == Quiet(stream[1] \o stream[2], FALSE)
        two == parseToken(Quiet(stream[1], FALSE), stream[2], FALSE,
                          [throws |-> {}, returns |-> JInt(7),
                           checkedIterators |-> FALSE])
    IN  one.events = two.events /\ one.calls = two.calls

\* C35: a body accumulator holds text only while the parser is in the state
\* it belongs to, and no Response carries the text of an earlier response
\* that an action tag interrupted
C35_AccumulatorsFollowState ==
  /\ currentThought # <<>> => state = "IN_THOUGHT"
  /\ currentAction # <<>> => state = "IN_ACTION"
  /\ currentResponse # <<>> => state = "IN_RESPONSE"
  /\ currentContextFeed # <<>> => state = "IN_CONTEXT_FEED"
  /\ \A n \in 1..Len(events) :
       events[n].type = "RESPONSE" => events[n].content # <<"o","l","d","n","e","w">>

\* C36: when a call of parseToken has returned, every action that was
\* announced by ActionStart and is not waiting in pendingActions has exactly
\* one ActionComplete or Error event with its id, after its ActionStart
C36_OneTerminalEvent ==
  (tokenCallback /\ running = <<>> /\ ~crashed) =>
    \A id \in CurrentDoc.ids :
      LET starts == {n \in 1..Len(events) :
                       /\ events[n].type = "ACTION_START"
                       /\ events[n].metadata.action_id = id}
          ends == {n \in 1..Len(events) :
                     /\ events[n].type \in {"ACTION_COMPLETE", "ERROR"}
                     /\ "action_id" \in DOMAIN events[n].metadata
                     /\ events[n].metadata.action_id = id}
          waiting == {m \in 1..Len(pendingActions) : pendingActions[m].id = id}
      IN  /\ Cardinality(ends) = Cardinality(starts) - Cardinality(waiting)
          /\ \A e \in ends : \E s \in starts : s < e

\* C37: the executor has been called for an id at most as often as an action
\* with that id has been parsed, and an action that waits in pendingActions
\* is not among those it has been called for: calls and waiting entries
\* together never outnumber the ActionStart events of the id
C37_CalledAtMostOnce ==
  tokenCallback =>
    \A id \in CurrentDoc.ids :
      Cardinality({i \in 1..Len(calls) : calls[i].action.id = id})
        + Cardinality({m \in 1..Len(pendingActions) : pendingActions[m].id = id})
        <= Cardinality({n \in 1..Len(events) :
                          /\ events[n].type = "ACTION_START"
                          /\ events[n].metadata.action_id = id})

\* q2 and q3 were released by q1, q3 by the scan nested in the call for q2,
\* and each has been called once
C37_Witness ==
  /\ tokenCallback
  /\ ~crashed
  /\ running = <<>>
  /\ pendingActions = <<>>
  /\ CurrentDoc = DocFanOut
  /\ Len(calls) = 3
  /\ {calls[i].action.id : i \in 1..3} = DocFanOut.ids
  /\ \A i \in 1..3 : ~calls[i].threw

C39_EndSignalIdempotent ==
  [][(finals >= 1 /\ finals' = finals + 1) => UNCHANGED parserVars]_vars

\* the stream ended inside a response, the text was flushed by the first end
\* signal, and a second end signal has been received
C39_Witness ==
  /\ CurrentDoc = DocOpenResponse
  /\ finals = 2
  /\ running = <<>>
  /\ state = "IN_RESPONSE"
  /\ currentResponse = <<>>
  /\ Len(events) = 1
  /\ events[1].type = "RESPONSE"
=============================================================================
